---- MODULE Spec2Model ----
(***************************************************************************)
(* NexBlue Home Assistant integration: the API client (token lifecycle,    *)
(* request wrapper, charger aggregation, commands) and the polling          *)
(* coordinator that caches its result.                                      *)
(*                                                                          *)
(* Two cooperating tasks run on the host's single event loop: "poll" (the   *)
(* coordinator's refresh, which runs async_get_data) and "cmd" (an entity   *)
(* command, async_start_charging / async_stop_charging).  A task is         *)
(* suspended only while one of its HTTP requests is in flight, so one       *)
(* action of the model is the code that runs from one await to the next.    *)
(***************************************************************************)
EXTENDS Integers, Sequences, FiniteSets, TLC

(***************************************************************************)
(* Bounds of the model.                                                     *)
(***************************************************************************)
\* The clock shows the first MaxClock seconds, and the instant at which a
\* token issued at 0 with the default lifetime expires.
MaxClock == 1
\* The charger list of one poll holds at most MaxChargers entries.
MaxChargers == 2

(***************************************************************************)
(* Program constants.                                                       *)
(***************************************************************************)
\* api.py:53 and api.py:90, response.get("expires_in", 3600)
DefaultExpiresIn == 3600
\* api.py:57 and api.py:94, timedelta(seconds=expires_in - 60)
ExpiryBuffer == 60

(***************************************************************************)
(* Python values.                                                           *)
(***************************************************************************)
\* A dict is a function from its keys; {} is the function with no key.
EmptyDict == [k \in {} |-> 0]
\* None where a dict (a JSON body, a result of api_wrapper) may stand.
PyNone == [py_none |-> TRUE]
\* None where a token string may stand.
None == "None"
\* None where the expiry timestamp may stand (self._token_expires_at = None).
NoExpiry == -1
\* An "expires_in" that is not a number (a JSON string or null).
NonNumeric == -2

\* bool(x) of an Optional[dict]: None and {} are falsy.
Truthy(r) == r # PyNone /\ DOMAIN r # {}
\* d.get(k, default)
Get(d, k, default) == IF k \in DOMAIN d THEN d[k] ELSE default
\* d[k] = v on a copy of d
Put(d, k, v) == [x \in DOMAIN d \cup {k} |-> IF x = k THEN v ELSE d[x]]
\* d.pop(k, None) on a copy of d
Pop(d, k) == [x \in DOMAIN d \ {k} |-> d[x]]
\* f"Bearer {token}"
Bearer(token) == <<"Bearer", token>>

\* api.py:21
HEADERS == [x \in {"Content-Type"} |-> "application/json"]

Tasks == {"poll", "cmd"}
\* The token pairs the vendor issues: an access token alone, or with the
\* refresh token that belongs to it.
Grants ==
    {[access_token |-> "T1"], [access_token |-> "T2"],
     [access_token |-> "T1", refresh_token |-> "R1"],
     [access_token |-> "T2", refresh_token |-> "R2"]}
Serials == {"A", "B"}

\* The instants the clock can show.
TimePoints == (0..MaxClock) \cup {DefaultExpiresIn - ExpiryBuffer}

(***************************************************************************)
(* The vendor and the transport: what one HTTP request can end with.        *)
(***************************************************************************)
\* A response with a status and a JSON body, or no response at all.
Outcome(kind, status, body) == [kind |-> kind, status |-> status, body |-> body]

\* The transport failed: timeout (asyncio.TimeoutError), connection error
\* (aiohttp.ClientError, socket.gaierror), or a body that is not JSON.
TransportFailures ==
    {Outcome(k, 0, EmptyDict) : k \in {"timeout", "client_error", "bad_json"}}

\* Bodies the login and refresh endpoints answer with: a token grant (with or
\* without refresh token and lifetime), or an error object.
GrantBodies ==
    LET withExpiry(b) ==
            {b} \cup {Put(b, "expires_in", e) : e \in {ExpiryBuffer + 1, NonNumeric}}
    IN  UNION {withExpiry(b) : b \in Grants}

ErrorBody == [error |-> "invalid"]

AuthOutcomes ==
    {Outcome("response", 200, b) : b \in GrantBodies \cup {ErrorBody}}
    \cup {Outcome("response", 201, b) : b \in {[access_token |-> "T1"]}}
    \cup {Outcome("response", 401, ErrorBody)}
    \cup TransportFailures

(***************************************************************************)
(* NexBlueApiClient: the request wrapper.                                   *)
(***************************************************************************)
Url(endpoint, serial) == [endpoint |-> endpoint, serial |-> serial]
LOGIN_URL == Url("account/login", "")
REFRESH_TOKEN_URL == Url("account/refresh_token", "")
CHARGERS_URL == Url("chargers", "")
DetailUrl(serial) == Url("chargers/{serial}", serial)
StatusUrl(serial) == Url("chargers/{serial}/cmd/status", serial)
\* A variant of CommandUrl in which both commands post to the start endpoint.
CommandUrlStartOnly(command, serial) ==
    Url("chargers/{serial}/cmd/start_charging", serial)

CommandUrl(command, serial) ==
    Url(IF command = "start_charging" THEN "chargers/{serial}/cmd/start_charging"
                                      ELSE "chargers/{serial}/cmd/stop_charging", serial)

\* No request.
NoRequest == [method |-> "", url |-> Url("", ""), headers |-> EmptyDict, json |-> PyNone]

\* A method argument is a string: the sequence of its characters.
\* str.lower() on the letters of the method names.
LowerOf ==
    [G |-> "g", E |-> "e", T |-> "t", P |-> "p", O |-> "o", S |-> "s", U |-> "u",
     A |-> "a", C |-> "c", H |-> "h", D |-> "d", L |-> "l"]

LowerChar(ch) == IF ch \in DOMAIN LowerOf THEN LowerOf[ch] ELSE ch

\* A variant of Lower that leaves the method as the caller wrote it.
LowerOmitted(method) == method

\* method.lower()
Lower(method) == [i \in 1..Len(method) |-> LowerChar(method[i])]

\* The methods api_wrapper dispatches on, as it spells them.
MethodWords ==
    [get |-> <<"g", "e", "t">>, post |-> <<"p", "o", "s", "t">>,
     put |-> <<"p", "u", "t">>, patch |-> <<"p", "a", "t", "c", "h">>,
     delete |-> <<"d", "e", "l", "e", "t", "e">>]

\* The branch of the if / elif chain a lowered method takes.
MethodName(m) ==
    IF \E n \in DOMAIN MethodWords : MethodWords[n] = m
    THEN CHOOSE n \in DOMAIN MethodWords : MethodWords[n] = m
    ELSE "unsupported"

\* A variant of DefaultData that leaves a missing body missing.
DefaultDataOmitted(m, data) == data

\* if data is None and method != "get": data = {}
DefaultData(m, data) == IF data = PyNone /\ m # "get" THEN EmptyDict ELSE data

\* if headers is None: the client's headers once a token is held, else HEADERS.
DefaultHeaders(c, headers) ==
    IF headers = PyNone
    THEN (IF c.access_token # None THEN c.headers ELSE HEADERS)
    ELSE headers

\* A variant of GetHeaders that sends the headers as they are.
GetHeadersUnstripped(headers) == headers

\* get_headers = headers.copy(); get_headers.pop("Content-Type", None)
GetHeaders(headers) == Pop(headers, "Content-Type")

\* api_wrapper(method, url, data, headers) up to the call of the session:
\* the request handed to the transport (json is None where the call passes
\* no json argument), or NoRequest for a method it does not support.
ApiWrapperRequest(c, method, url, data, headers) ==
    LET m == MethodName(Lower(method))
        d == DefaultData(m, data)
        h == DefaultHeaders(c, headers)
    IN  IF m = "get"
        THEN [method |-> "get", url |-> url, headers |-> GetHeaders(h), json |-> PyNone]
        ELSE IF m \in {"post", "put", "patch"}
        THEN [method |-> m, url |-> url, headers |-> h, json |-> d]
        ELSE IF m = "delete"
        THEN [method |-> "delete", url |-> url, headers |-> h, json |-> PyNone]
        ELSE NoRequest

\* The request of the client's own calls, api_wrapper("get", url) and
\* api_wrapper("post", url, data): the default headers.
ApiRequest(c, method, url, data) ==
    ApiWrapperRequest(c, MethodWords[method], url, data, PyNone)

\* api_wrapper from the response on: the JSON body for status 200 or 201,
\* None for every other status and for every exception.
ApiResult(outcome) ==
    IF outcome.kind = "response" /\ outcome.status \in {200, 201}
    THEN outcome.body
    ELSE PyNone

(***************************************************************************)
(* NexBlueApiClient: the token state.                                       *)
(***************************************************************************)
\* The client after __init__.
NewClient ==
    [access_token |-> None, refresh_token |-> None, token_expires_at |-> NoExpiry,
     headers |-> HEADERS]

\* A variant of ApiWrapperEffect that drops the token state when the
\* request fails.
ApiWrapperEffectInvalidating(c, result) ==
    IF result = PyNone
    THEN [access_token |-> None, refresh_token |-> None,
          token_expires_at |-> NoExpiry, headers |-> HEADERS]
    ELSE c

\* The client c after api_wrapper returned result: api_wrapper reads
\* self._headers and self._access_token and works on copies, and its
\* callers async_get_data, async_start_charging and async_stop_charging
\* assign no attribute of the client.
ApiWrapperEffect(c, result) == c

LoginData == [username |-> "user", password |-> "secret", account_type |-> 0]
RefreshData(c) == [refresh_token |-> c.refresh_token, account_type |-> 0]

\* A variant of ExpiresAt without the safety buffer.
ExpiresAtNoBuffer(t, expires_in) == t + expires_in

\* The expiry both async_login and async_refresh_token compute.
ExpiresAt(t, expires_in) == t + expires_in - ExpiryBuffer

\* The tail both share, entered with the tokens already stored in c1: the
\* expiry and the Authorization header are written and True is returned,
\* unless expires_in - 60 raises ("raise": a TypeError on a value that is
\* not a number), which leaves c1 as it is.
StoreExpiry(c1, response, t) ==
    LET expires_in == Get(response, "expires_in", DefaultExpiresIn)
    IN  IF expires_in = NonNumeric
        THEN [client |-> c1, ret |-> "raise"]
        ELSE [client |-> [c1 EXCEPT
                            !.token_expires_at = ExpiresAt(t, expires_in),
                            !.headers = Put(c1.headers, "Authorization",
                                            Bearer(c1.access_token))],
              ret |-> "true"]

\* A variant of LoginEffect that forgets the tokens when the login fails.
LoginEffectClearing(c, response, t) ==
    IF Truthy(response) /\ "access_token" \in DOMAIN response
    THEN StoreExpiry([c EXCEPT !.access_token = response.access_token,
                               !.refresh_token = Get(response, "refresh_token", None)],
                     response, t)
    ELSE [client |-> [access_token |-> None, refresh_token |-> None,
                      token_expires_at |-> NoExpiry, headers |-> HEADERS],
          ret |-> "false"]

\* async_login after its request: the client it leaves and what it returns
\* ("true", "false") or that it raises ("raise").
LoginEffect(c, response, t) ==
    IF Truthy(response) /\ "access_token" \in DOMAIN response
    THEN StoreExpiry([c EXCEPT !.access_token = response.access_token,
                               !.refresh_token = Get(response, "refresh_token", None)],
                     response, t)
    ELSE [client |-> c, ret |-> "false"]

\* A variant of RefreshEffect in which a failed refresh is final.
RefreshEffectTerminal(c, response, t) ==
    IF Truthy(response) /\ "access_token" \in DOMAIN response
    THEN StoreExpiry([c EXCEPT !.access_token = response.access_token,
                               !.refresh_token =
                                   Get(response, "refresh_token", c.refresh_token)],
                     response, t)
    ELSE [client |-> c, ret |-> "false"]

\* A variant of RefreshEffect that stores the refresh token as async_login
\* does: None when the response brings none.
RefreshEffectReplacing(c, response, t) ==
    IF Truthy(response) /\ "access_token" \in DOMAIN response
    THEN StoreExpiry([c EXCEPT !.access_token = response.access_token,
                               !.refresh_token = Get(response, "refresh_token", None)],
                     response, t)
    ELSE [client |-> c, ret |-> "login"]

\* async_refresh_token after its request; "login" stands for the fallback
\* return await self.async_login().
RefreshEffect(c, response, t) ==
    IF Truthy(response) /\ "access_token" \in DOMAIN response
    THEN StoreExpiry([c EXCEPT !.access_token = response.access_token,
                               !.refresh_token =
                                   Get(response, "refresh_token", c.refresh_token)],
                     response, t)
    ELSE [client |-> c, ret |-> "login"]

\* A variant of EnsureStep that sends the refresh request for every
\* expired token, with or without a refresh token.
EnsureStepAlwaysRefresh(c, t) ==
    IF c.access_token = None \/ c.token_expires_at = NoExpiry THEN "login"
    ELSE IF t >= c.token_expires_at THEN "refresh" ELSE "valid"

\* async_ensure_token_valid and async_refresh_token up to their first await:
\* the request to send, or "valid" when none is needed.
EnsureStep(c, t) ==
    IF c.access_token = None \/ c.token_expires_at = NoExpiry THEN "login"
    ELSE IF t >= c.token_expires_at
         THEN (IF c.refresh_token = None THEN "login" ELSE "refresh")
         ELSE "valid"

\* A variant of AfterLogin that reports success whatever the login returned.
AfterLoginIgnored(e, login_ret) == "true"

\* A variant of AfterLogin in which a login that follows a failed refresh
\* cannot make the call succeed.
AfterLoginStillFailed(e, login_ret) ==
    IF e.refresh_ret = "failed" /\ login_ret = "true" THEN "false" ELSE login_ret

\* What async_ensure_token_valid returns once async_login has returned
\* login_ret to it, directly or through async_refresh_token: each of them
\* ends with return await self.async_login().
AfterLogin(e, login_ret) == login_ret

(***************************************************************************)
(* Bodies of the charger endpoints.                                         *)
(***************************************************************************)
\* An entry of the charger list: with a serial number, or without one.
ListEntries == {[serial_number |-> s] : s \in Serials} \cup {[name |-> "unnamed"]}

RECURSIVE SeqsUpTo(_, _)
\* Every sequence over S of length at most n.
SeqsUpTo(S, n) ==
    IF n = 0 THEN {<<>>}
    ELSE LET shorter == SeqsUpTo(S, n - 1)
         IN  shorter \cup {Append(q, x) : q \in {r \in shorter : Len(r) = n - 1}, x \in S}

\* Bodies of GET /chargers: the list under "data", the list under a wrong
\* key, or an empty object.
ListBodies(n) ==
    {[data |-> q] : q \in SeqsUpTo(ListEntries, n)}
    \cup {[chargers |-> <<>>], EmptyDict}

\* Bodies of GET /chargers/{serial}: the charger's record under the serial
\* number asked for, or an empty object.
DetailBodies(serial) == {[serial_number |-> serial, model |-> "M"], EmptyDict}

\* Records that do not repeat the serial number asked for: one under
\* another serial number, one without any.
OtherDetailBodies == {[serial_number |-> "Z", model |-> "M"], [model |-> "M"]}
StatusBodies == {[charging_state |-> 2], EmptyDict}
CommandBodies == {[result |-> 0], [result |-> 1], [result |-> -1], ErrorBody, EmptyDict}

\* What a request to a charger endpoint can end with, given its 2xx bodies.
ChargerOutcomes(bodies) ==
    {Outcome("response", 200, b) : b \in bodies}
    \cup {Outcome("response", 500, ErrorBody)}
    \cup TransportFailures

(***************************************************************************)
(* State.                                                                   *)
(***************************************************************************)
VARIABLES
    client,               \* NexBlueApiClient: tokens, expiry, default headers
    now,                  \* datetime.now(), in seconds
    pc,                   \* per task: "idle", or the request in flight it awaits
    ev,                   \* per task: its current async_ensure_token_valid call
    gd,                   \* locals of the poll task's async_get_data call
    cmd,                  \* the cmd task's command and charger
    data,                 \* coordinator.data
    last_update_success,  \* coordinator.last_update_success
    last,                 \* what the step that led to this state did
    entity,               \* the switch and number entities of a charger
    vendor,               \* the vendor backend, once it answers unchangingly
    hass                  \* the host: the config entry's setup and hass.data

vars ==
    <<client, now, pc, ev, gd, cmd, data, last_update_success, last, entity, vendor,
      hass>>

\* The entities before their first call: the switch's _last_command and
\* _command_timestamp, and of the last call of async_turn_on /
\* async_turn_off / async_set_native_value the client commands the switch
\* called, what the command returned to it, the exception the entity
\* raised to the host, whether and how often it requested a coordinator
\* refresh, and how the client call of async_set_native_value ended; and
\* what is_on returned when the host last read it, and for which charger's
\* switch.
NoEntity ==
    [last_command |-> None, command_timestamp |-> 0, calls |-> <<>>,
     command_ok |-> "none", raised |-> "none", refresh_requested |-> FALSE,
     refreshes |-> 0, limit_call |-> "none",
     shown |-> [serial |-> "", read |-> FALSE, is_on |-> FALSE]]

\* The methods of NexBlueApiClient.
ClientOperations ==
    {"async_login", "async_refresh_token", "async_ensure_token_valid",
     "async_get_data", "async_start_charging", "async_stop_charging", "api_wrapper"}

\* The cmd task runs no command.
NoCommand == [command |-> "", serial |-> ""]

\* The client command async_turn_on and async_turn_off call.
SwitchCommand(turn) == IF turn = "on" THEN "start_charging" ELSE "stop_charging"

\* One async_ensure_token_valid call: the token state it was entered with
\* ("no_token", "expired", "valid") and whether a refresh token was held
\* then, the login and refresh requests it made so far, and what
\* async_refresh_token's request, async_login and the call itself ended with.
EnsureCall(entry, had_refresh, logins, refreshes, refresh_ret, login_ret, ret) ==
    [entry |-> entry, had_refresh |-> had_refresh, logins |-> logins,
     refreshes |-> refreshes, refresh_ret |-> refresh_ret, login_ret |-> login_ret,
     ret |-> ret]

NoEnsure == EnsureCall("none", FALSE, 0, 0, "none", "none", "none")

\* The token state a call of async_ensure_token_valid finds at time t.
TokenStatus(c, t) ==
    IF c.access_token = None \/ c.token_expires_at = NoExpiry THEN "no_token"
    ELSE IF t >= c.token_expires_at THEN "expired" ELSE "valid"

\* async_get_data's locals: chargers_data["data"], the position of the loop,
\* detail_data, result["chargers"]; with them the URLs of the GET requests
\* the call issued, what api_wrapper returned for each, and whether the
\* call has returned a value.
GdInit == [list |-> <<>>, idx |-> 0, detail |-> EmptyDict, chargers |-> <<>>,
           reqs |-> <<>>, resps |-> <<>>, returned |-> FALSE]

\* No arguments: the step was not a call of api_wrapper from outside.
NoArgs == [method |-> <<>>, url |-> Url("", ""), data |-> PyNone, headers |-> PyNone]

\* No call of _async_update_data ended in the step.
NoUpdate == [call |-> "none", value |-> PyNone, exception |-> "none", cause |-> "none"]

\* What one step did: the task and the action; the async_ensure_token_valid
\* call that ended in it (NoEnsure if none did); how the task's operation
\* ended in it ("none" if it goes on); the boolean a command returned; the
\* result of api_wrapper the step worked on; the request the step handed
\* to the transport (NoRequest if it sent none); the arguments of a call
\* of api_wrapper from outside the client; how the coordinator's
\* _async_update_data ended in it (NoUpdate if it did not).
Event(task, action, ensure, call, ok, response, request) ==
    [task |-> task, action |-> action, ensure |-> ensure, call |-> call,
     ok |-> ok, response |-> response, request |-> request, args |-> NoArgs,
     update |-> NoUpdate]

\* The vendor backend while it may answer every request in every way.
\* Once fixed, it repeats the answer it gave to a URL (answers), and the
\* polls made against it are kept: the token call of the running one
\* (gate) and, of each that ended, its token call, how it ended and the
\* value async_get_data returned (results).
AnyVendor == [fixed |-> FALSE, answers |-> EmptyDict, gate |-> NoEnsure, results |-> <<>>]

\* What a request to url can end with: one of outcomes, or what the fixed
\* backend answered to url before.
Answers(url, outcomes) ==
    IF vendor.fixed /\ url \in DOMAIN vendor.answers
    THEN {vendor.answers[url]}
    ELSE outcomes

\* The backend after it answered o to url.
Answered(url, o) ==
    IF vendor.fixed THEN [vendor EXCEPT !.answers = Put(@, url, o)] ELSE vendor

\* The backend v after a step l of a poll that left d with the coordinator.
Observed(v, l, d) ==
    IF ~v.fixed \/ l.task # "poll" THEN v
    ELSE LET g == IF l.ensure # NoEnsure THEN l.ensure ELSE v.gate
         IN  IF l.call \in {"return", "raise"}
             THEN [v EXCEPT !.gate = NoEnsure,
                            !.results = Append(@, [ensure |-> g, call |-> l.call,
                                                   value |-> IF l.call = "return"
                                                             THEN d ELSE PyNone])]
             ELSE [v EXCEPT !.gate = g]

\* const.py:19-23
PLATFORMS == {"binary_sensor", "number", "sensor", "switch"}

\* The host before async_setup_entry: how the setup of the config entry
\* stands ("none", "refreshing", "done", or the exception it raised), the
\* platforms the entry's options leave enabled, whether the coordinator is
\* in hass.data[DOMAIN] under the entry id, and the platforms forwarded
\* (coordinator.platforms); of the last async_unload_entry the platforms it
\* asked the host to unload, what the host returned and what it returned
\* itself; the functions called for the entry since its last reload
\* began, in order; and the config flow that creates the entry.
\* The config flow before the user submits credentials: where it stands
\* ("none", "testing", "form", "entry"), errors["base"] of the form shown,
\* and of the login request of _test_credentials how the transport ended
\* it and what async_login returned.
NoFlow == [step |-> "none", errors |-> "none", outcome |-> "none", login |-> "none"]

NoHass ==
    [setup |-> "none", enabled |-> {}, registered |-> FALSE, platforms |-> {},
     unload |-> [asked |-> {}, host |-> "none", ret |-> "none"], calls |-> <<>>,
     flow |-> NoFlow]

\* A variant of SetupContinues that goes on whatever the refresh gave.
SetupContinuesUnchecked(h, success) ==
    [h EXCEPT !.setup = "done", !.registered = TRUE, !.platforms = h.enabled]

\* async_setup_entry after await coordinator.async_refresh().
SetupContinues(h, success) ==
    IF ~success
    THEN [h EXCEPT !.setup = "ConfigEntryNotReady"]
    ELSE [h EXCEPT !.setup = "done", !.registered = TRUE, !.platforms = h.enabled]

\* The host h after a step l of the poll task: the initial refresh of
\* async_setup_entry ended in it, or it did not.
AfterRefresh(h, l, success) ==
    IF h.setup = "refreshing" /\ l.task = "poll" /\ l.call \in {"return", "raise"}
    THEN SetupContinues(h, success)
    ELSE h

Init ==
    /\ client = NewClient
    /\ now = 0
    /\ pc = [t \in Tasks |-> "idle"]
    /\ ev = [t \in Tasks |-> NoEnsure]
    /\ gd = GdInit
    /\ cmd = NoCommand
    /\ data = PyNone
    /\ last_update_success = TRUE
    /\ last = Event("", "Init", NoEnsure, "none", FALSE, PyNone, NoRequest)
    /\ entity = NoEntity
    /\ vendor = AnyVendor
    /\ hass = NoHass

(***************************************************************************)
(* The polling coordinator (DataUpdateCoordinator of the host, subclassed   *)
(* by NexBlueDataUpdateCoordinator): a refresh stores what                  *)
(* _async_update_data returns, and keeps the data when it raises.           *)
(***************************************************************************)
\* The classes except Exception catches, of those a poll can meet: the
\* TypeError of async_login; asyncio.CancelledError is a BaseException.
ExceptionClasses == {"TypeError"}

\* A variant of AsyncUpdateData that raises UpdateFailed without its cause.
AsyncUpdateDataUnchained(call, value, exception) ==
    IF call = "return"
    THEN [call |-> "return", value |-> value, exception |-> "none", cause |-> "none"]
    ELSE IF exception \in ExceptionClasses
         THEN [call |-> "raise", value |-> PyNone, exception |-> "UpdateFailed",
               cause |-> "none"]
         ELSE [call |-> "raise", value |-> PyNone, exception |-> exception,
               cause |-> "none"]

\* _async_update_data, given how its await of async_get_data ended: with
\* value, or with exception.  It returns the value, raises UpdateFailed
\* from an exception that except Exception catches, and lets any other
\* pass.
AsyncUpdateData(call, value, exception) ==
    IF call = "return"
    THEN [call |-> "return", value |-> value, exception |-> "none", cause |-> "none"]
    ELSE IF exception \in ExceptionClasses
         THEN [call |-> "raise", value |-> PyNone, exception |-> "UpdateFailed",
               cause |-> exception]
         ELSE [call |-> "raise", value |-> PyNone, exception |-> exception,
               cause |-> "none"]

\* The event e of a step in which the poll ended so.
PollEnds(e, call, value, exception) ==
    [e EXCEPT !.update = AsyncUpdateData(call, value, exception)]

CoordinatorStore(value) ==
    /\ data' = value
    /\ last_update_success' = TRUE

CoordinatorUpdateFailed ==
    /\ data' = data
    /\ last_update_success' = FALSE

(***************************************************************************)
(* The operation a task runs behind async_ensure_token_valid.               *)
(***************************************************************************)
\* A variant of EntityOnCall in which the switch requests the refresh
\* before it awaits the command.
EntityOnCallRefreshFirst(t, k) ==
    IF t = "cmd" /\ pc[t] = "idle" /\ "caller" \in DOMAIN k
    THEN [entity EXCEPT !.calls = <<[command |-> k.command, serial |-> k.serial]>>,
                        !.command_ok = "none", !.raised = "none",
                        !.refresh_requested = TRUE, !.refreshes = 1]
    ELSE entity

\* The entities when task t goes on with operation k: a call of the switch
\* that starts in this step calls the client's command k, and has neither
\* its result nor a refresh requested yet.
EntityOnCall(t, k) ==
    IF t = "cmd" /\ pc[t] = "idle" /\ "caller" \in DOMAIN k
    THEN [entity EXCEPT !.calls = <<[command |-> k.command, serial |-> k.serial]>>,
                        !.command_ok = "none", !.raised = "none",
                        !.refresh_requested = FALSE, !.refreshes = 0]
    ELSE entity

\* Its first request: GET /chargers for async_get_data, the command POST
\* for async_start_charging / async_stop_charging.
OpRequest(t, c, k) ==
    IF t = "poll" THEN ApiRequest(c, "get", CHARGERS_URL, PyNone)
    ELSE ApiRequest(c, "post", CommandUrl(k.command, k.serial), PyNone)

OpPc(t) == IF t = "poll" THEN "list" ELSE "command"

\* The operation ends in task t: async_get_data returns value to the
\* coordinator or raises through _async_update_data; a command returns
\* value or raises to its caller.  The switch entity (a command with a
\* caller) drops what the command returned, records the command and
\* sleeps one second; an exception of the command passes through it to
\* the host.
OpEnds(t, call, value) ==
    /\ IF t = "cmd" /\ "caller" \in DOMAIN cmd
       THEN IF call = "return"
            THEN /\ cmd' = cmd
                 /\ pc' = [pc EXCEPT ![t] = "sleep"]
                 /\ entity' = [entity EXCEPT
                                   !.last_command =
                                       IF cmd.command = "start_charging" THEN "turn_on"
                                                                         ELSE "turn_off",
                                   !.command_timestamp = now,
                                   !.command_ok = IF value THEN "true" ELSE "false"]
            ELSE /\ cmd' = NoCommand
                 /\ pc' = [pc EXCEPT ![t] = "idle"]
                 /\ entity' = [entity EXCEPT !.command_ok = "none",
                                             !.raised = "TypeError",
                                             !.refresh_requested = FALSE]
       ELSE /\ cmd' = IF t = "cmd" THEN NoCommand ELSE cmd
            /\ pc' = [pc EXCEPT ![t] = "idle"]
            /\ UNCHANGED entity
    /\ IF t = "poll"
       THEN LET update == AsyncUpdateData(call, value, "TypeError")
            IN  IF update.call = "return" THEN CoordinatorStore(update.value)
                                          ELSE CoordinatorUpdateFailed
       ELSE UNCHANGED <<data, last_update_success>>

\* A variant of EnsureEnds in which the operation goes on with its request
\* although async_ensure_token_valid returned False.
EnsureEndsUngated(t, action, c, e, response, k) ==
    /\ client' = c
    /\ ev' = [ev EXCEPT ![t] = NoEnsure]
    /\ now' = now
    /\ IF e.ret \in {"true", "false"}
       THEN /\ cmd' = k
            /\ pc' = [pc EXCEPT ![t] = OpPc(t)]
            /\ gd' = IF t = "poll" THEN [GdInit EXCEPT !.reqs = <<CHARGERS_URL>>] ELSE gd
            /\ UNCHANGED <<data, last_update_success>>
            /\ entity' = EntityOnCall(t, k)
            /\ last' = Event(t, action, e, "none", FALSE, response, OpRequest(t, c, k))
       ELSE /\ OpEnds(t, "raise", EmptyDict)
            /\ gd' = IF t = "poll" THEN GdInit ELSE gd
            /\ last' = LET l == Event(t, action, e, "raise", FALSE, response, NoRequest)
                        IN  IF t = "poll"
                            THEN PollEnds(l, l.call, EmptyDict, "TypeError")
                            ELSE l

\* A variant of EnsureEnds in which result["chargers"] outlives the call:
\* a poll appends to the chargers the poll before it collected.
EnsureEndsAccumulating(t, action, c, e, response, k) ==
    /\ client' = c
    /\ ev' = [ev EXCEPT ![t] = NoEnsure]
    /\ now' = now
    /\ IF e.ret = "true"
       THEN /\ cmd' = k
            /\ pc' = [pc EXCEPT ![t] = OpPc(t)]
            /\ gd' = IF t = "poll" THEN [GdInit EXCEPT !.reqs = <<CHARGERS_URL>>,
                                                      !.chargers = gd.chargers] ELSE gd
            /\ UNCHANGED <<data, last_update_success>>
            /\ entity' = EntityOnCall(t, k)
            /\ last' = Event(t, action, e, "none", FALSE, response, OpRequest(t, c, k))
       ELSE /\ OpEnds(t, IF e.ret = "false" THEN "return" ELSE "raise",
                      IF t = "poll" THEN EmptyDict ELSE FALSE)
            /\ gd' = IF t = "poll" THEN [GdInit EXCEPT !.returned = (e.ret = "false")]
                                   ELSE gd
            /\ last' = LET l == Event(t, action, e,
                                      IF e.ret = "false" THEN "return" ELSE "raise",
                                      FALSE, response, NoRequest)
                        IN  IF t = "poll"
                            THEN PollEnds(l, l.call, EmptyDict, "TypeError")
                            ELSE l

\* async_ensure_token_valid returns e.ret (or raises) in task t, leaving
\* client c: the operation k goes on with its first request, or ends
\* (async_get_data returns {}, a command returns False, an exception of
\* async_login passes through both, as neither catches it).
EnsureEnds(t, action, c, e, response, k) ==
    /\ client' = c
    /\ ev' = [ev EXCEPT ![t] = NoEnsure]
    /\ now' = now
    /\ IF e.ret = "true"
       THEN /\ cmd' = k
            /\ pc' = [pc EXCEPT ![t] = OpPc(t)]
            /\ gd' = IF t = "poll" THEN [GdInit EXCEPT !.reqs = <<CHARGERS_URL>>] ELSE gd
            /\ UNCHANGED <<data, last_update_success>>
            /\ entity' = EntityOnCall(t, k)
            /\ last' = Event(t, action, e, "none", FALSE, response, OpRequest(t, c, k))
       ELSE /\ OpEnds(t, IF e.ret = "false" THEN "return" ELSE "raise",
                      IF t = "poll" THEN EmptyDict ELSE FALSE)
            /\ gd' = IF t = "poll" THEN [GdInit EXCEPT !.returned = (e.ret = "false")]
                                   ELSE gd
            /\ last' = LET l == Event(t, action, e,
                                      IF e.ret = "false" THEN "return" ELSE "raise",
                                      FALSE, response, NoRequest)
                        IN  IF t = "poll"
                            THEN PollEnds(l, l.call, EmptyDict, "TypeError")
                            ELSE l

\* A task enters async_ensure_token_valid for operation k: it returns True
\* at once, or sends the login or the refresh request.
EnsureBegins(t, action, k) ==
    LET step == EnsureStep(client, now)
    IN  IF step = "valid"
        THEN EnsureEnds(t, action, client,
                        EnsureCall(TokenStatus(client, now), client.refresh_token # None,
                                   0, 0, "none", "none", "true"),
                        PyNone, k)
        ELSE /\ pc' = [pc EXCEPT ![t] = step]
             /\ ev' = [ev EXCEPT ![t] =
                    EnsureCall(TokenStatus(client, now), client.refresh_token # None,
                               IF step = "login" THEN 1 ELSE 0,
                               IF step = "refresh" THEN 1 ELSE 0,
                               "none", "none", "pending")]
             /\ gd' = IF t = "poll" THEN GdInit ELSE gd
             /\ cmd' = k
             /\ last' = Event(t, action, NoEnsure, "none", FALSE, PyNone,
                    IF step = "login"
                    THEN ApiRequest(client, "post", LOGIN_URL, LoginData)
                    ELSE ApiRequest(client, "post", REFRESH_TOKEN_URL,
                                    RefreshData(client)))
             /\ entity' = EntityOnCall(t, k)
             /\ UNCHANGED <<client, now, data, last_update_success>>

(***************************************************************************)
(* Actions.                                                                 *)
(***************************************************************************)
\* Time passes.
Tick ==
    /\ \E t \in TimePoints : t > now /\ now' = t
    /\ last' = Event("", "Tick", NoEnsure, "none", FALSE, PyNone, NoRequest)
    /\ UNCHANGED <<client, pc, ev, gd, cmd, data, last_update_success, entity, vendor, hass>>

\* The coordinator refreshes: _async_update_data awaits async_get_data.
StartPoll ==
    /\ pc["poll"] = "idle"
    /\ EnsureBegins("poll", "StartPoll", cmd)
    /\ vendor' = Observed(vendor, last', data')
    /\ UNCHANGED hass

\* The host sets the config entry up: async_setup_entry creates the client
\* and the coordinator and awaits the coordinator's first refresh.
SetupEntry ==
    /\ hass.setup \in {"none", "reloading"}
    /\ pc["poll"] = "idle"
    /\ EnsureBegins("poll", "SetupEntry", cmd)
    /\ \E enabled \in {PLATFORMS, {"sensor", "switch"}, {}} :
           hass' = [hass EXCEPT !.setup = "refreshing", !.enabled = enabled,
                                !.calls = Append(@, "async_setup_entry")]
    /\ UNCHANGED vendor

\* A variant of UnloadEffect that removes the coordinator whatever the
\* host returned.
UnloadEffectAlways(h, ok) ==
    LET platforms_to_unload == PLATFORMS \cap h.platforms
        unloaded == IF platforms_to_unload # {} THEN ok ELSE TRUE
    IN  [h EXCEPT !.registered = FALSE,
                  !.setup = "unloaded",
                  !.platforms = {},
                  !.unload = [asked |-> platforms_to_unload,
                              host |-> IF platforms_to_unload = {} THEN "none"
                                       ELSE IF ok THEN "true" ELSE "false",
                              ret |-> IF unloaded THEN "true" ELSE "false"]]

\* async_unload_entry on host h, where ok is what
\* hass.config_entries.async_unload_platforms returns if it is called:
\* the coordinator is popped from hass.data[DOMAIN] if unloaded is true.
UnloadEffect(h, ok) ==
    LET platforms_to_unload == PLATFORMS \cap h.platforms
        unloaded == IF platforms_to_unload # {} THEN ok ELSE TRUE
        u == [asked |-> platforms_to_unload,
              host |-> IF platforms_to_unload = {} THEN "none"
                       ELSE IF ok THEN "true" ELSE "false",
              ret |-> IF unloaded THEN "true" ELSE "false"]
    IN  IF unloaded
        THEN [h EXCEPT !.registered = FALSE, !.setup = "unloaded", !.platforms = {},
                       !.unload = u]
        ELSE [h EXCEPT !.unload = u]

\* The host removes the entry that is set up: async_unload_entry.
UnloadEntry ==
    /\ hass.setup = "done"
    /\ hass.registered
    /\ pc["poll"] = "idle"
    /\ \E ok \in BOOLEAN :
           hass' = [UnloadEffect(hass, ok) EXCEPT !.calls = <<"async_unload_entry">>]
    /\ last' = Event("", "UnloadEntry", NoEnsure, "return", FALSE, PyNone, NoRequest)
    /\ UNCHANGED <<client, now, pc, ev, gd, cmd, data, last_update_success, entity, vendor>>

\* The entry's options were updated: async_reload_entry awaits
\* async_unload_entry and, whatever it returned, calls async_setup_entry,
\* which creates a new client and a new coordinator before its first
\* await.
ReloadEntry ==
    /\ hass.setup = "done"
    /\ hass.registered
    /\ pc["poll"] = "idle"
    /\ \E ok \in BOOLEAN :
           hass' = [UnloadEffect(hass, ok) EXCEPT !.calls = <<"async_unload_entry">>,
                                                  !.setup = "reloading"]
    /\ client' = NewClient
    /\ data' = PyNone
    /\ last_update_success' = TRUE
    /\ gd' = GdInit
    /\ last' = Event("", "ReloadEntry", NoEnsure, "none", FALSE, PyNone, NoRequest)
    /\ UNCHANGED <<now, pc, ev, cmd, entity, vendor>>

\* An entity sends a command: async_start_charging or async_stop_charging.
StartCommand(serials) ==
    /\ pc["cmd"] = "idle"
    /\ \E c \in {"start_charging", "stop_charging"}, s \in serials :
           EnsureBegins("cmd", "StartCommand", [command |-> c, serial |-> s])
    /\ UNCHANGED <<vendor, hass>>

\* The login request of task t ends: async_login stores the tokens or not,
\* and async_ensure_token_valid returns what it returns.
LoginResponse(outcomes) ==
    \E t \in Tasks, o \in Answers(LOGIN_URL, outcomes) :
        /\ pc[t] = "login"
        /\ LET response == ApiResult(o)
               eff == LoginEffect(client, response, now)
           IN  EnsureEnds(t, "LoginResponse", eff.client,
                          [ev[t] EXCEPT !.login_ret = eff.ret,
                                        !.ret = AfterLogin(ev[t], eff.ret)],
                          response, cmd)
        /\ vendor' = Observed(Answered(LOGIN_URL, o), last', data')
        /\ hass' = AfterRefresh(hass, last', last_update_success')

\* The refresh request of task t ends: async_refresh_token stores the
\* tokens, or falls back to async_login and sends the login request.
RefreshResponse(outcomes) ==
    \E t \in Tasks, o \in Answers(REFRESH_TOKEN_URL, outcomes) :
        /\ pc[t] = "refresh"
        /\ LET response == ApiResult(o)
               eff == RefreshEffect(client, response, now)
           IN  IF eff.ret = "login"
               THEN /\ pc' = [pc EXCEPT ![t] = "login"]
                    /\ ev' = [ev EXCEPT ![t].refresh_ret = "failed",
                                        ![t].logins = @ + 1]
                    /\ last' = Event(t, "RefreshResponse", NoEnsure, "none", FALSE,
                                     response,
                                     ApiRequest(client, "post", LOGIN_URL, LoginData))
                    /\ UNCHANGED <<client, now, gd, cmd, data, last_update_success, entity>>
               ELSE EnsureEnds(t, "RefreshResponse", eff.client,
                               [ev[t] EXCEPT !.refresh_ret = eff.ret, !.ret = eff.ret],
                               response, cmd)
        /\ vendor' = Observed(Answered(REFRESH_TOKEN_URL, o), last', data')
        /\ hass' = AfterRefresh(hass, last', last_update_success')

\* A variant of NextWithSerial that gives up at the first entry without a
\* serial number.
NextWithSerialAbort(list, i) ==
    IF i + 1 <= Len(list) /\ "serial_number" \in DOMAIN list[i + 1] THEN i + 1 ELSE 0

\* A variant of NextWithSerial that walks the list from its end.
NextWithSerialLast(list, i) ==
    LET later == {j \in (i + 1)..Len(list) : "serial_number" \in DOMAIN list[j]}
    IN  IF later = {} THEN 0 ELSE CHOOSE j \in later : \A k \in later : j >= k

\* The first position after i of an entry with a serial number, 0 if none.
NextWithSerial(list, i) ==
    LET later == {j \in (i + 1)..Len(list) : "serial_number" \in DOMAIN list[j]}
    IN  IF later = {} THEN 0 ELSE CHOOSE j \in later : \A k \in later : j <= k

\* A variant of GetDataReturns that turns {} into {"chargers": []}.
GetDataReturnsEmptyList(action, g, value, response) ==
    /\ OpEnds("poll", "return",
              IF value = EmptyDict THEN [chargers |-> <<>>] ELSE value)
    /\ gd' = [g EXCEPT !.returned = TRUE]
    /\ last' = PollEnds(Event("poll", action, NoEnsure, "return", FALSE, response,
                              NoRequest),
                        "return",
                        IF value = EmptyDict THEN [chargers |-> <<>>] ELSE value, "none")
    /\ client' = ApiWrapperEffect(client, response)
    /\ UNCHANGED <<now, ev>>

\* async_get_data returns value.
GetDataReturns(action, g, value, response) ==
    /\ OpEnds("poll", "return", value)
    /\ gd' = [g EXCEPT !.returned = TRUE]
    /\ last' = PollEnds(Event("poll", action, NoEnsure, "return", FALSE, response,
                              NoRequest),
                        "return", value, "none")
    /\ client' = ApiWrapperEffect(client, response)
    /\ UNCHANGED <<now, ev>>

\* The for loop of async_get_data goes on after position g.idx: the detail
\* request of the next charger with a serial number, or return result.
Loop(action, g, response) ==
    LET j == NextWithSerial(g.list, g.idx)
    IN  IF j = 0
        THEN GetDataReturns(action, g, [chargers |-> g.chargers], response)
        ELSE LET url == DetailUrl(g.list[j].serial_number)
             IN  /\ pc' = [pc EXCEPT !["poll"] = "detail"]
                 /\ gd' = [g EXCEPT !.idx = j, !.reqs = Append(@, url)]
                 /\ last' = Event("poll", action, NoEnsure, "none", FALSE, response,
                                  ApiRequest(client, "get", url, PyNone))
                 /\ client' = ApiWrapperEffect(client, response)
                 /\ UNCHANGED <<now, ev, cmd, data, last_update_success, entity>>

\* GET /chargers ends, with a list of at most n entries.
ListResponse(n) ==
    \E o \in Answers(CHARGERS_URL, ChargerOutcomes(ListBodies(n))) :
        /\ pc["poll"] = "list"
        /\ LET chargers_data == ApiResult(o)
               g == [gd EXCEPT !.resps = Append(@, chargers_data)]
           IN  IF ~Truthy(chargers_data) \/ "data" \notin DOMAIN chargers_data
               THEN GetDataReturns("ListResponse", g, EmptyDict, chargers_data)
               ELSE Loop("ListResponse", [g EXCEPT !.list = chargers_data.data],
                         chargers_data)
        /\ vendor' = Observed(Answered(CHARGERS_URL, o), last', data')
        /\ hass' = AfterRefresh(hass, last', last_update_success')

\* GET /chargers/{serial} ends: the status request follows a detail record,
\* and the charger is passed over without one.  The vendor answers with
\* the charger's record or with one of others.
DetailResponse(others) ==
    /\ pc["poll"] = "detail"
    /\ \E o \in Answers(DetailUrl(gd.list[gd.idx].serial_number),
                        ChargerOutcomes(DetailBodies(gd.list[gd.idx].serial_number)
                                        \cup others)) :
        LET detail_data == ApiResult(o)
            g == [gd EXCEPT !.resps = Append(@, detail_data)]
        IN  /\ IF Truthy(detail_data)
               THEN LET url == StatusUrl(gd.list[gd.idx].serial_number)
                    IN  /\ pc' = [pc EXCEPT !["poll"] = "status"]
                        /\ gd' = [g EXCEPT !.detail = detail_data,
                                           !.reqs = Append(@, url)]
                        /\ last' = Event("poll", "DetailResponse", NoEnsure, "none",
                                         FALSE, detail_data,
                                         ApiRequest(client, "get", url, PyNone))
                        /\ client' = ApiWrapperEffect(client, detail_data)
                        /\ UNCHANGED <<now, ev, cmd, data, last_update_success, entity>>
               ELSE Loop("DetailResponse", g, detail_data)
            /\ vendor' = Observed(Answered(DetailUrl(gd.list[gd.idx].serial_number), o),
                                  last', data')
            /\ hass' = AfterRefresh(hass, last', last_update_success')

\* A variant of ChargerInfo that merges the status fields into the entry.
ChargerInfoFlattened(detail_data, status_data) ==
    IF Truthy(status_data)
    THEN [x \in DOMAIN detail_data \cup DOMAIN status_data |->
             IF x \in DOMAIN status_data THEN status_data[x] ELSE detail_data[x]]
    ELSE detail_data

\* A variant of ChargerInfo that attaches whatever the status request gave.
ChargerInfoAnyStatus(detail_data, status_data) ==
    Put(detail_data, "status", status_data)

\* {**detail_data} with the status record under "status" if there is one.
ChargerInfo(detail_data, status_data) ==
    IF Truthy(status_data) THEN Put(detail_data, "status", status_data)
    ELSE detail_data

\* GET /chargers/{serial}/cmd/status ends: the charger is appended.
StatusResponse ==
    /\ pc["poll"] = "status"
    /\ \E o \in Answers(StatusUrl(gd.list[gd.idx].serial_number),
                        ChargerOutcomes(StatusBodies)) :
        LET status_data == ApiResult(o)
        IN  /\ Loop("StatusResponse",
                    [gd EXCEPT !.resps = Append(@, status_data),
                               !.chargers = Append(@, ChargerInfo(gd.detail, status_data)),
                               !.detail = EmptyDict],
                    status_data)
            /\ vendor' = Observed(Answered(StatusUrl(gd.list[gd.idx].serial_number), o),
                                  last', data')
            /\ hass' = AfterRefresh(hass, last', last_update_success')

\* A variant of CommandSucceeded that takes a missing result for success.
CommandSucceededByDefault(response) ==
    Truthy(response) /\ Get(response, "result", 0) = 0

\* response and response.get("result", -1) == 0
CommandSucceeded(response) == Truthy(response) /\ Get(response, "result", -1) = 0

\* The command POST ends: the command returns whether it succeeded.
CommandResponse ==
    \E o \in Answers(CommandUrl(cmd.command, cmd.serial), ChargerOutcomes(CommandBodies)) :
        /\ pc["cmd"] = "command"
        /\ vendor' = Answered(CommandUrl(cmd.command, cmd.serial), o)
        /\ UNCHANGED hass
        /\ LET response == ApiResult(o)
           IN  /\ OpEnds("cmd", "return", CommandSucceeded(response))
               /\ last' = Event("cmd", "CommandResponse", NoEnsure, "return",
                                CommandSucceeded(response), response, NoRequest)
               /\ client' = ApiWrapperEffect(client, response)
               /\ UNCHANGED <<now, ev, gd>>

\* The host abandons a task at its await (the request is cancelled): the
\* call ends there, and nothing it would have done afterwards happens.
\* asyncio.CancelledError is raised at the await and passes through the
\* except clauses of the client, none of which catches a BaseException.
Cancel ==
    \E t \in Tasks :
        /\ pc[t] # "idle"
        /\ cmd' = IF t = "cmd" THEN NoCommand ELSE cmd
        /\ pc' = [pc EXCEPT ![t] = "idle"]
        /\ gd' = IF t = "poll" THEN GdInit ELSE gd
        /\ ev' = [ev EXCEPT ![t] = NoEnsure]
        /\ last' = LET l == Event(t, "Cancel", NoEnsure, "cancelled", FALSE, PyNone,
                                  NoRequest)
                    IN  IF t = "poll"
                        THEN PollEnds(l, "raise", PyNone, "CancelledError")
                        ELSE l
        /\ UNCHANGED <<client, now, data, last_update_success, entity, vendor, hass>>

\* The switch entity is turned on or off: async_turn_on awaits
\* async_start_charging, async_turn_off awaits async_stop_charging.
SwitchTurn(serials) ==
    /\ pc["cmd"] = "idle"
    /\ \E turn \in {"on", "off"}, s \in serials :
           EnsureBegins("cmd", "SwitchTurn",
                        [command |-> SwitchCommand(turn), serial |-> s,
                         caller |-> "switch", turn |-> turn, switch |-> s])
    /\ UNCHANGED <<vendor, hass>>

\* asyncio.sleep(1) of the switch entity ends: it requests a coordinator
\* refresh and returns to the host.
SleepDone ==
    /\ pc["cmd"] = "sleep"
    /\ pc' = [pc EXCEPT !["cmd"] = "idle"]
    /\ cmd' = NoCommand
    /\ entity' = [entity EXCEPT !.raised = "none", !.refresh_requested = TRUE,
                                !.refreshes = @ + 1]
    /\ last' = Event("cmd", "SleepDone", NoEnsure, "return", FALSE, PyNone, NoRequest)
    /\ UNCHANGED <<client, now, ev, gd, data, last_update_success, vendor, hass>>

\* How await self.coordinator.api.async_set_current_limit(...) can end:
\* NexBlueApiClient has no such method, so the attribute lookup raises.
SetCurrentLimitOutcomes ==
    IF "async_set_current_limit" \in ClientOperations THEN {} ELSE {"AttributeError"}

\* The try block of async_set_native_value, given how the client call
\* ended: a refresh request after True, ValueError after anything else.
SetNativeValueEffect(outcome) ==
    IF outcome = "true"
    THEN [raised |-> "none", refresh_requested |-> TRUE]
    ELSE [raised |-> "ValueError", refresh_requested |-> FALSE]

\* The number entity is set: async_set_native_value.  int(value) is
\* computed and lost, as the call it is meant for is never made.
SetNativeValue ==
    /\ pc["cmd"] = "idle"
    /\ \E o \in SetCurrentLimitOutcomes :
           LET eff == SetNativeValueEffect(o)
           IN  entity' = [entity EXCEPT !.limit_call = o,
                                        !.calls = <<>>,
                                        !.command_ok = "none",
                                        !.raised = eff.raised,
                                        !.refresh_requested = eff.refresh_requested,
                                        !.refreshes = IF eff.refresh_requested
                                                      THEN 1 ELSE 0]
    /\ last' = Event("cmd", "SetNativeValue", NoEnsure,
                     IF entity'.raised = "none" THEN "return" ELSE "raise",
                     FALSE, PyNone, NoRequest)
    /\ UNCHANGED <<client, now, pc, ev, gd, cmd, data, last_update_success, vendor, hass>>

\* The spelling of word with the letters at the positions in up in upper
\* case.
Spelling(word, up) ==
    [i \in 1..Len(word) |->
        IF i \in up /\ \E u \in DOMAIN LowerOf : LowerOf[u] = word[i]
        THEN CHOOSE u \in DOMAIN LowerOf : LowerOf[u] = word[i]
        ELSE word[i]]

\* Every spelling of word in upper and lower case letters.
Casings(word) == {Spelling(word, up) : up \in SUBSET (1..Len(word))}

\* word in lower case, in upper case and capitalised.
UsualCasings(word) == {Spelling(word, up) : up \in {{}, {1}, 1..Len(word)}}

\* Method arguments: "get" in every casing, the other supported methods
\* and "head" in the usual ones, the empty string and a prefix of a
\* method name.
Methods ==
    Casings(MethodWords.get)
    \cup UNION {UsualCasings(MethodWords[n]) : n \in DOMAIN MethodWords}
    \cup UsualCasings(<<"h", "e", "a", "d">>)
    \cup {<<>>, <<"g", "e">>}

\* Header arguments: none, a map with Content-Type, a map without.
HeaderArgs == {PyNone, Put(HEADERS, "Accept", "application/json"), [Accept |-> "*/*"]}

\* A caller outside the client calls api_wrapper(method, url, data,
\* headers) and is given its result: the call is made while no task of
\* the client runs.
ApiWrapperCall ==
    /\ \A t \in Tasks : pc[t] = "idle"
    /\ \E method \in Methods, body \in {PyNone, [limit |-> 16]},
          headers \in HeaderArgs,
          o \in {Outcome("response", 200, [result |-> 0]),
                 Outcome("response", 500, ErrorBody)} :
           LET url == DetailUrl("A")
               req == ApiWrapperRequest(client, method, url, body, headers)
           IN  last' = [Event("", "ApiWrapperCall", NoEnsure, "return", FALSE,
                              IF req = NoRequest THEN PyNone ELSE ApiResult(o), req)
                            EXCEPT !.args = [method |-> method, url |-> url,
                                             data |-> body, headers |-> headers]]
    /\ client' = ApiWrapperEffect(client, last'.response)
    /\ UNCHANGED <<now, pc, ev, gd, cmd, data, last_update_success, entity, vendor, hass>>

\* From here on the vendor backend is unchanged: it answers a request as
\* it answered the same request before.
VendorSettles ==
    /\ ~vendor.fixed
    /\ \A t \in Tasks : pc[t] = "idle"
    /\ vendor' = [AnyVendor EXCEPT !.fixed = TRUE]
    /\ UNCHANGED hass
    /\ last' = Event("", "VendorSettles", NoEnsure, "none", FALSE, PyNone, NoRequest)
    /\ UNCHANGED <<client, now, pc, ev, gd, cmd, data, last_update_success, entity>>

(***************************************************************************)
(* The token lifecycle under concurrency: a poll and a command share the    *)
(* client while the clock runs and the vendor answers login and refresh in  *)
(* every way; the account holds no charger, so a poll ends with the list.   *)
(***************************************************************************)
NextAuth ==
    \/ Tick
    \/ StartPoll
    \/ StartCommand({"A"})
    \/ LoginResponse(AuthOutcomes)
    \/ RefreshResponse(AuthOutcomes)
    \/ ListResponse(0)
    \/ CommandResponse
    \/ Cancel

SpecAuth == Init /\ [][NextAuth]_vars

(***************************************************************************)
(* The aggregation: the coordinator polls an account of up to MaxChargers   *)
(* chargers, every request of a poll ending in every way; the login is      *)
(* granted or refused, and the token does not expire.                       *)
(***************************************************************************)
BasicAuthOutcomes ==
    {Outcome("response", 200, [access_token |-> "T1", refresh_token |-> "R1"]),
     Outcome("response", 401, ErrorBody)}

NextGetData ==
    \/ StartPoll
    \/ LoginResponse(BasicAuthOutcomes)
    \/ ListResponse(MaxChargers)
    \/ DetailResponse({})
    \/ StatusResponse

SpecGetData == Init /\ [][NextGetData]_vars

(***************************************************************************)
(* Two polls against an unchanged backend: the coordinator polls an        *)
(* account of at most one charger while the clock runs and tokens of both  *)
(* lifetimes are granted or refused; at some point the backend settles,    *)
(* and two more polls are made against it.                                  *)
(***************************************************************************)
TwiceAuthOutcomes ==
    {Outcome("response", 200, [access_token |-> "T1", refresh_token |-> "R1",
                               expires_in |-> ExpiryBuffer + 1]),
     Outcome("response", 200, [access_token |-> "T2"]),
     Outcome("response", 200, [access_token |-> "T1", expires_in |-> NonNumeric]),
     Outcome("response", 401, ErrorBody)}

NextTwice ==
    \/ Tick
    \/ (Len(vendor.results) < 2 /\ StartPoll)
    \/ LoginResponse(TwiceAuthOutcomes)
    \/ RefreshResponse(TwiceAuthOutcomes)
    \/ ListResponse(1)
    \/ DetailResponse({})
    \/ StatusResponse
    \/ VendorSettles

SpecTwice == Init /\ [][NextTwice]_vars

(***************************************************************************)
(* The request wrapper: api_wrapper is called with every method, body and  *)
(* header argument, before and after a login, between the polls of an      *)
(* account without chargers.                                                *)
(***************************************************************************)
NextWrapper ==
    \/ StartPoll
    \/ LoginResponse(BasicAuthOutcomes)
    \/ ListResponse(0)
    \/ ApiWrapperCall

SpecWrapper == Init /\ [][NextWrapper]_vars

(***************************************************************************)
(* The setup of the config entry: the first refresh of the coordinator     *)
(* logs in and polls an account of at most one charger, every request      *)
(* ending in every way; once the entry is set up the coordinator polls on. *)
(***************************************************************************)
NextSetup ==
    \/ SetupEntry
    \/ (hass.setup = "done" /\ StartPoll)
    \/ LoginResponse(TwiceAuthOutcomes)
    \/ ListResponse(1)
    \/ DetailResponse({})
    \/ StatusResponse

SpecSetup == Init /\ [][NextSetup]_vars

(***************************************************************************)
(* The entities: the host turns the switch of a charger on and off and     *)
(* sets its number while the clock runs, the login and the refresh are     *)
(* granted or refused and the command ends in every way.                   *)
(***************************************************************************)
EntityAuthOutcomes ==
    BasicAuthOutcomes
    \cup {Outcome("response", 200, [access_token |-> "T2", expires_in |-> NonNumeric])}

NextEntity ==
    \/ Tick
    \/ SwitchTurn(Serials)
    \/ LoginResponse(EntityAuthOutcomes)
    \/ RefreshResponse(EntityAuthOutcomes)
    \/ CommandResponse
    \/ SleepDone
    \/ SetNativeValue

SpecEntity == Init /\ [][NextEntity]_vars

(***************************************************************************)
(* The switch entity's state: is_on, read by the host between the polls    *)
(* and the commands.                                                        *)
(***************************************************************************)
\* switch.py:91: the seconds for which a command's intent is honoured.
CommandWindow == 10

\* switch.py:105: charging, load balancing, delayed, ev waiting.
OnStates == {2, 5, 6, 7}

\* _get_charger_data: the first entry of coordinator.data["chargers"] with
\* the switch's serial number, or {}.
GetChargerData(d, serial) ==
    LET chargers == Get(d, "chargers", <<>>)
        found == {i \in 1..Len(chargers) :
                     /\ "serial_number" \in DOMAIN chargers[i]
                     /\ chargers[i].serial_number = serial}
    IN  IF found = {} THEN EmptyDict
        ELSE chargers[CHOOSE i \in found : \A j \in found : i <= j]

\* A variant of Recent whose window includes its end.
RecentInclusive(e, t) ==
    e.last_command # None /\ (t - e.command_timestamp) <= CommandWindow

\* A command was recorded and less than the window has passed since.
Recent(e, t) ==
    e.last_command # None /\ (t - e.command_timestamp) < CommandWindow

\* is_on of the switch of charger serial, with coordinator data d, the
\* entity's fields e and the event loop's time t.  charging_state is None
\* when the status has no such key: None is in none of the tuples.
IsOn(d, serial, e, t) ==
    LET charger_data == GetChargerData(d, serial)
    IN  IF ~Truthy(charger_data) \/ "status" \notin DOMAIN charger_data
        THEN FALSE
        ELSE LET status == charger_data.status
                 known == "charging_state" \in DOMAIN status
             IN  IF /\ Recent(e, t)
                    /\ e.last_command = "turn_on"
                    /\ (~known \/ status.charging_state \notin {0, 4})
                 THEN TRUE
                 ELSE IF /\ Recent(e, t)
                         /\ e.last_command = "turn_off"
                         /\ (~known \/ status.charging_state # 2)
                      THEN FALSE
                      ELSE known /\ status.charging_state \in OnStates

\* The host reads is_on of the switch of a charger: one the last poll
\* returned, or one it no longer returned.
ReadIsOn ==
    /\ \E s \in Serials \cup {"gone"} :
           entity' = [entity EXCEPT
                         !.shown = [serial |-> s, read |-> TRUE,
                                    is_on |-> IsOn(data, s, entity, now)]]
    /\ last' = Event("", "ReadIsOn", NoEnsure, "return", FALSE, PyNone, NoRequest)
    /\ UNCHANGED <<client, now, pc, ev, gd, cmd, data, last_update_success, vendor, hass>>

\* The event loop's clock runs on, up to the window's end and past it.
LoopTimes == {0, 1, CommandWindow - 1, CommandWindow, CommandWindow + 1}

LoopTick ==
    /\ \E t \in LoopTimes : t > now /\ now' = t
    /\ last' = Event("", "LoopTick", NoEnsure, "none", FALSE, PyNone, NoRequest)
    /\ UNCHANGED <<client, pc, ev, gd, cmd, data, last_update_success, entity, vendor, hass>>

\* The values of charging_state: the eight the switch tells apart and one
\* it does not know.
ChargingStates == 0..8

\* What a poll can have left with the coordinator: {} after a failed poll,
\* no charger, charger A with every status or none, and charger A behind
\* a charging charger B.
PolledData ==
    LET statuses == {[charging_state |-> n] : n \in ChargingStates}
                    \cup {[cable_locked |-> 1], EmptyDict}
        a == {ChargerInfo([serial_number |-> "A", model |-> "M"], st) : st \in statuses}
        b == ChargerInfo([serial_number |-> "B", model |-> "M"], [charging_state |-> 2])
    IN  {EmptyDict, [chargers |-> <<>>]}
        \cup {[chargers |-> <<x>>] : x \in a}
        \cup {[chargers |-> <<b, x>>] : x \in a}

\* The switch after the calls it completed: none, or a last async_turn_on
\* or async_turn_off that recorded its command at time t.
SwitchAfterCalls ==
    {NoEntity}
    \cup {[NoEntity EXCEPT
              !.last_command = IF turn = "on" THEN "turn_on" ELSE "turn_off",
              !.command_timestamp = t,
              !.calls = <<[command |-> SwitchCommand(turn), serial |-> "A"]>>,
              !.command_ok = ok, !.refresh_requested = TRUE, !.refreshes = 1]
          : turn \in {"on", "off"}, t \in {0, 1}, ok \in {"true", "false"}}

\* The entry is set up, the client has logged in, a poll has left its data
\* and the switch its last command, at a time not before that command.
InitSwitch ==
    /\ client = LoginEffect(NewClient, [access_token |-> "T1", refresh_token |-> "R1"],
                            0).client
    /\ now \in {0, 1}
    /\ pc = [t \in Tasks |-> "idle"]
    /\ ev = [t \in Tasks |-> NoEnsure]
    /\ gd = GdInit
    /\ cmd = NoCommand
    /\ data \in PolledData
    /\ last_update_success = TRUE
    /\ last = Event("", "Init", NoEnsure, "none", FALSE, PyNone, NoRequest)
    /\ entity \in {e \in SwitchAfterCalls : e.command_timestamp <= now}
    /\ vendor = AnyVendor
    /\ hass = [NoHass EXCEPT !.setup = "done", !.enabled = PLATFORMS,
                             !.registered = TRUE, !.platforms = PLATFORMS,
                             !.calls = <<"async_setup_entry">>]

NextSwitch ==
    \/ LoopTick
    \/ ReadIsOn

SpecSwitch == InitSwitch /\ [][NextSwitch]_vars

(***************************************************************************)
(* The client as a whole: a poll of an account of at most one charger and  *)
(* a command share it while the clock runs, tokens of both lifetimes are   *)
(* granted or refused and every request ends in every way.                 *)
(***************************************************************************)
NextClient ==
    \/ Tick
    \/ StartPoll
    \/ StartCommand({"A"})
    \/ LoginResponse(TwiceAuthOutcomes)
    \/ RefreshResponse(TwiceAuthOutcomes)
    \/ ListResponse(1)
    \/ DetailResponse({})
    \/ StatusResponse
    \/ CommandResponse

SpecClient == Init /\ [][NextClient]_vars

\* The same, where every request in flight ends: the transport answers or
\* fails, or the timeout of api_wrapper (TIMEOUT) ends the wait.  Nothing
\* makes the host start a poll or a command.
RequestEndsFor(t) ==
    /\ \/ LoginResponse(TwiceAuthOutcomes)
       \/ RefreshResponse(TwiceAuthOutcomes)
       \/ ListResponse(1)
       \/ DetailResponse({})
       \/ StatusResponse
       \/ CommandResponse
    /\ last'.task = t

SpecClientFair == SpecClient /\ \A t \in Tasks : WF_vars(RequestEndsFor(t))

(***************************************************************************)
(* The life of the config entry: it is set up as above, polled, and then   *)
(* unloaded or reloaded by the host, whose unloading of the platforms      *)
(* succeeds or fails.                                                       *)
(***************************************************************************)
NextEntry ==
    \/ SetupEntry
    \/ (hass.setup = "done" /\ StartPoll)
    \/ LoginResponse(TwiceAuthOutcomes)
    \/ ListResponse(1)
    \/ DetailResponse({})
    \/ StatusResponse
    \/ UnloadEntry
    \/ ReloadEntry

SpecEntry == Init /\ [][NextEntry]_vars

(***************************************************************************)
(* The config flow: the user submits credentials, _test_credentials logs   *)
(* in with a client of its own, and the flow creates the entry or shows    *)
(* the form again; the entry it created is then set up.                    *)
(***************************************************************************)
\* aiohttp.ClientError, as the except clause of _test_credentials names it.
ClientErrors == {"ClientError"}

\* _test_credentials, given what async_login of its client ended with:
\* "true", "false", or "raise" with the class of the exception.
TestCredentials(ret, exception) ==
    IF ret = "true" THEN [valid |-> TRUE, errors |-> "none"]
    ELSE IF ret = "false" THEN [valid |-> FALSE, errors |-> "none"]
    ELSE IF exception \in ClientErrors
         THEN [valid |-> FALSE, errors |-> "cannot_connect"]
         ELSE [valid |-> FALSE, errors |-> "unknown"]

\* async_step_user with user input, after _test_credentials: the entry is
\* created, or the form is shown with the error set, "auth" if none is.
StepUser(tested) ==
    IF tested.valid THEN [step |-> "entry", errors |-> "none"]
    ELSE [step |-> "form",
          errors |-> IF tested.errors = "none" THEN "auth" ELSE tested.errors]

\* The user submits the form: async_step_user clears the errors and
\* _test_credentials sends the login request of a new client.
FlowSubmit ==
    /\ hass.flow.step \in {"none", "form"}
    /\ hass' = [hass EXCEPT !.flow = [NoFlow EXCEPT !.step = "testing"]]
    /\ last' = Event("", "FlowSubmit", NoEnsure, "none", FALSE, PyNone,
                     ApiRequest(NewClient, "post", LOGIN_URL, LoginData))
    /\ UNCHANGED <<client, now, pc, ev, gd, cmd, data, last_update_success, entity, vendor>>

\* The login request of _test_credentials ends.  What async_login raises
\* is the TypeError of its own arithmetic: api_wrapper has caught what the
\* transport raised.
FlowLoginResponse(outcomes) ==
    /\ hass.flow.step = "testing"
    /\ \E o \in outcomes :
           LET response == ApiResult(o)
               eff == LoginEffect(NewClient, response, now)
               step == StepUser(TestCredentials(eff.ret, "TypeError"))
           IN  /\ hass' = [hass EXCEPT !.flow = [step |-> step.step,
                                                 errors |-> step.errors,
                                                 outcome |-> o.kind,
                                                 login |-> eff.ret]]
               /\ last' = Event("", "FlowLoginResponse", NoEnsure,
                                "return", FALSE, response, NoRequest)
    /\ UNCHANGED <<client, now, pc, ev, gd, cmd, data, last_update_success, entity, vendor>>

NextFlow ==
    \/ FlowSubmit
    \/ FlowLoginResponse(AuthOutcomes)
    \/ (hass.flow.step = "entry" /\ SetupEntry)
    \/ (hass.setup = "done" /\ StartPoll)
    \/ LoginResponse(TwiceAuthOutcomes)
    \/ ListResponse(1)
    \/ DetailResponse({})
    \/ StatusResponse

SpecFlow == Init /\ [][NextFlow]_vars

(***************************************************************************)
(* The aggregation against a vendor whose charger records need not repeat  *)
(* the serial number they were asked for: polls of an account of at most   *)
(* one charger, and the host reading the switch.                            *)
(***************************************************************************)
NextSerial ==
    \/ StartPoll
    \/ LoginResponse(BasicAuthOutcomes)
    \/ ListResponse(1)
    \/ DetailResponse(OtherDetailBodies)
    \/ StatusResponse
    \/ ReadIsOn

SpecSerial == Init /\ [][NextSerial]_vars

(***************************************************************************)
(* Properties.  They are stated over what a step did (last), the state it  *)
(* left, and, where a step is compared with the state before it, over the  *)
(* step itself.                                                             *)
(***************************************************************************)
\* The actions in which a task enters async_ensure_token_valid.
Starts == {"StartPoll", "StartCommand"}

\* A login or refresh request that failed: api_wrapper returned None (a
\* status other than 200/201, or a transport failure), or a body without
\* "access_token".
NoToken(r) == r = PyNone \/ "access_token" \notin DOMAIN r

\* A login or refresh request the vendor accepted: a token, and a lifetime
\* that is a number or absent.
Granted(r) == ~NoToken(r) /\ Get(r, "expires_in", 3600) # NonNumeric

\* The token state a granted response r writes at time t over client c:
\* a login ("LoginResponse") always replaces the refresh token, a refresh
\* keeps the held one when r brings none.
Written(c, r, t, action) ==
    [access_token |-> r.access_token,
     refresh_token |->
         IF "refresh_token" \in DOMAIN r THEN r.refresh_token
         ELSE IF action = "RefreshResponse" THEN c.refresh_token ELSE None,
     token_expires_at |-> t + Get(r, "expires_in", 3600) - 60,
     headers |-> [x \in {"Content-Type", "Authorization"} |->
                     IF x = "Authorization" THEN Bearer(r.access_token)
                     ELSE "application/json"]]

\* The poll that ended with event l is one in which async_get_data failed:
\* authentication failed, or the list request failed or had the wrong shape.
FailedPoll(l) ==
    /\ l.task = "poll"
    /\ l.call = "return"
    /\ \/ l.ensure.ret = "false"
       \/ /\ l.action = "ListResponse"
          /\ (~Truthy(l.response) \/ "data" \notin DOMAIN l.response)

\* The coordinator caches a result with chargers in it.
HasChargers(d) == d # PyNone /\ "chargers" \in DOMAIN d /\ d.chargers # <<>>

\* C1: after a poll in which async_get_data fails, the coordinator's cache
\* is still the result of the last successful poll: a failed poll does not
\* replace cached chargers.
C1_FailedPollKeepsCache ==
    [][(FailedPoll(last') /\ HasChargers(data)) => data' = data]_vars

\* C2 as stated: a call of async_ensure_token_valid that finds the token
\* expired makes exactly one refresh request, exactly one login request if
\* the refresh failed, and leaves the token state the successful request
\* wrote.
C2_ExpiredAlwaysRefreshes ==
    [][LET e == last'.ensure
       IN  e.entry = "expired" =>
               /\ e.refreshes = 1
               /\ e.logins = (IF e.refresh_ret = "failed" THEN 1 ELSE 0)
               /\ e.ret = "true" =>
                      client' = Written(client, last'.response, now, last'.action)
      ]_vars

\* C2 as amended: a call of async_ensure_token_valid that finds the token
\* expired makes exactly one refresh request if a refresh token is held,
\* and none but exactly one login request if none is held; after a failed
\* refresh request it makes exactly one login request; when it returns
\* true the token state is the one written by the request that succeeded
\* last, and when it returns false its last step left the token state
\* alone.
C2_ExpiredRefreshesWithToken ==
    [][LET e == last'.ensure
       IN  e.entry = "expired" =>
               /\ e.refreshes = (IF e.had_refresh THEN 1 ELSE 0)
               /\ e.logins = (IF ~e.had_refresh \/ e.refresh_ret = "failed"
                              THEN 1 ELSE 0)
               /\ e.ret = "true" =>
                      client' = Written(client, last'.response, now, last'.action)
               /\ e.ret = "false" => client' = client
      ]_vars

\* A call that found the token expired, whose refresh request failed and
\* whose fallback login succeeded, has returned true.
C2_Witness ==
    /\ last.ensure.entry = "expired"
    /\ last.ensure.had_refresh
    /\ last.ensure.refreshes = 1
    /\ last.ensure.refresh_ret = "failed"
    /\ last.ensure.logins = 1
    /\ last.ensure.ret = "true"

\* C3: with no access token or no expiry held, a call of
\* async_ensure_token_valid sends the login request at once, makes exactly
\* one login request and no refresh request, and returns what that login
\* returned: true for a response with a token, false for one without.
C3_NoTokenLogsInOnce ==
    /\ (last.action \in Starts /\ TokenStatus(client, now) = "no_token") =>
           /\ last.request.method = "post"
           /\ last.request.url = LOGIN_URL
           /\ pc[last.task] = "login"
    /\ last.ensure.entry = "no_token" =>
           /\ last.action = "LoginResponse"
           /\ last.ensure.logins = 1
           /\ last.ensure.refreshes = 0
           /\ last.ensure.ret = last.ensure.login_ret
           /\ last.ensure.ret = "false" <=> NoToken(last.response)
           /\ last.ensure.ret = "true" <=> Granted(last.response)

\* A call entered without a token has returned false after its one login.
C3_Witness ==
    /\ last.ensure.entry = "no_token"
    /\ last.ensure.logins = 1
    /\ last.ensure.ret = "false"

\* C4: a successful login or refresh at time t0 with expires_in = E (3600
\* when absent) sets the expiry to t0 + E - 60; a call of
\* async_ensure_token_valid at a time before the expiry returns true
\* without a login or refresh request, and a call at or after the expiry
\* sends a refresh or login request before it returns.
C4_ExpiryGovernsRequests ==
    /\ (last.action \in {"LoginResponse", "RefreshResponse"} /\ last.ensure.ret = "true") =>
           client.token_expires_at = now + Get(last.response, "expires_in", 3600) - 60
    /\ (last.action \in Starts /\ client.access_token # None
                               /\ client.token_expires_at # NoExpiry) =>
           IF now < client.token_expires_at
           THEN /\ last.ensure.ret = "true"
                /\ last.ensure.logins = 0
                /\ last.ensure.refreshes = 0
                /\ last.request.url \notin {LOGIN_URL, REFRESH_TOKEN_URL}
                /\ pc[last.task] = OpPc(last.task)
           ELSE /\ last.ensure = NoEnsure
                /\ last.request.url \in {LOGIN_URL, REFRESH_TOKEN_URL}
                /\ pc[last.task] \in {"login", "refresh"}
                /\ ev[last.task].ret = "pending"

\* A poll starts one second before the expiry and goes on without a token
\* request.
C4_Witness ==
    /\ last.action = "StartPoll"
    /\ client.token_expires_at # NoExpiry
    /\ now + 1 = client.token_expires_at
    /\ last.ensure.ret = "true"
    /\ last.request.url = CHARGERS_URL

\* C5: in every reachable state the access token and the expiry are both
\* unset or both set.
C5_TokenAndExpiryTogether ==
    (client.access_token = None) <=> (client.token_expires_at = NoExpiry)

\* C6: a login whose request fails (no response body, or a body without
\* access_token) returns false and leaves access token, refresh token,
\* expiry and default headers as they were.
C6_FailedLoginChangesNothing ==
    [][(last'.action = "LoginResponse" /\ NoToken(last'.response)) =>
           /\ last'.ensure.login_ret = "false"
           /\ client' = client
      ]_vars

\* A login has failed while tokens were held, and returned false.
C6_Witness ==
    /\ last.action = "LoginResponse"
    /\ NoToken(last.response)
    /\ last.ensure.login_ret = "false"
    /\ client.access_token # None
    /\ client.refresh_token # None

\* C7: async_refresh_token, entered for an expired token, sends no refresh
\* request but the login request when no refresh token is held; with one
\* held it sends the refresh request, and when that fails the login
\* request follows in the same call, exactly once; so the call returns
\* false only after a login of its own failed.
C7_RefreshFallsBackToLogin ==
    /\ (last.action \in Starts /\ TokenStatus(client, now) = "expired") =>
           IF client.refresh_token = None
           THEN /\ last.request.url = LOGIN_URL
                /\ ev[last.task].refreshes = 0
                /\ ev[last.task].logins = 1
           ELSE /\ last.request.url = REFRESH_TOKEN_URL
                /\ last.request.json =
                       [refresh_token |-> client.refresh_token, account_type |-> 0]
                /\ ev[last.task].refreshes = 1
                /\ ev[last.task].logins = 0
    /\ (last.action = "RefreshResponse" /\ NoToken(last.response)) =>
           /\ last.request.url = LOGIN_URL
           /\ pc[last.task] = "login"
           /\ ev[last.task].logins = 1
           /\ ev[last.task].ret = "pending"
    /\ (last.ensure.entry = "expired" /\ last.ensure.ret = "false") =>
           /\ last.action = "LoginResponse"
           /\ last.ensure.logins = 1
           /\ last.ensure.login_ret = "false"
           /\ NoToken(last.response)

\* A call whose refresh request failed has ended false after its login
\* failed as well.
C7_Witness ==
    /\ last.ensure.entry = "expired"
    /\ last.ensure.had_refresh
    /\ last.ensure.refresh_ret = "failed"
    /\ last.ensure.login_ret = "false"
    /\ last.ensure.ret = "false"

\* C8: in every reachable state, a login request of
\* async_ensure_token_valid that the vendor accepts makes the call return
\* true, and the calling operation goes on: it sends its own request,
\* authorized with the token just received.
C8_AcceptedLoginUnlocks ==
    (last.action = "LoginResponse" /\ Granted(last.response)) =>
        /\ last.ensure.ret = "true"
        /\ client.access_token = last.response.access_token
        /\ pc[last.task] = OpPc(last.task)
        /\ last.request.url =
               (IF last.task = "poll" THEN CHARGERS_URL
                ELSE CommandUrl(cmd.command, cmd.serial))
        /\ last.request.headers["Authorization"] = Bearer(last.response.access_token)

\* After a failed refresh the login was accepted and the command goes on.
C8_Witness ==
    /\ last.action = "LoginResponse"
    /\ last.task = "cmd"
    /\ last.ensure.refresh_ret = "failed"
    /\ last.ensure.ret = "true"
    /\ pc["cmd"] = "command"

\* A request of the aggregation g failed: api_wrapper returned None.
AnyFetchFailed(g) == \E i \in 1..Len(g.resps) : g.resps[i] = PyNone

RECURSIVE Aggregate(_, _, _, _)
\* The chargers sequence for the entries of list from position i on, given
\* the results resps of the requests from position k on: an entry without
\* serial number takes no request; a charger whose detail result is empty
\* or None is left out; every other charger is its whole detail record,
\* with the status result under "status" if that is not empty or None.
Aggregate(list, i, resps, k) ==
    IF i > Len(list) THEN <<>>
    ELSE IF "serial_number" \notin DOMAIN list[i] THEN Aggregate(list, i + 1, resps, k)
    ELSE IF ~Truthy(resps[k]) THEN Aggregate(list, i + 1, resps, k + 1)
    ELSE <<IF Truthy(resps[k + 1])
           THEN [x \in DOMAIN resps[k] \cup {"status"} |->
                    IF x = "status" THEN resps[k + 1] ELSE resps[k][x]]
           ELSE resps[k]>>
         \o Aggregate(list, i + 1, resps, k + 2)

C10_RequestsInListOrder ==
    (/\ last.task = "poll"
     /\ last.call = "return"
     /\ gd.resps # <<>>
     /\ \A i \in 1..Len(gd.resps) : Truthy(gd.resps[i])
     /\ "data" \in DOMAIN gd.resps[1]
     /\ \A j \in 1..Len(gd.resps[1].data) : "serial_number" \in DOMAIN gd.resps[1].data[j])
    => LET list == gd.resps[1].data
           N == Len(list)
       IN  /\ Len(gd.reqs) = 1 + 2 * N
           /\ Len(gd.resps) = 1 + 2 * N
           /\ gd.reqs[1] = CHARGERS_URL
           /\ \A j \in 1..N :
                  /\ gd.reqs[2 * j] = DetailUrl(list[j].serial_number)
                  /\ gd.reqs[2 * j + 1] = StatusUrl(list[j].serial_number)
           /\ "chargers" \in DOMAIN data
           /\ Len(data.chargers) = N
           /\ \A j \in 1..N :
                  /\ data.chargers[j].serial_number = list[j].serial_number
                  /\ data.chargers[j].status = gd.resps[2 * j + 1]

\* A poll of two different chargers has returned both after five requests.
C10_Witness ==
    /\ last.task = "poll"
    /\ last.call = "return"
    /\ Len(gd.reqs) = 5
    /\ \A i \in 1..Len(gd.resps) : Truthy(gd.resps[i])
    /\ "chargers" \in DOMAIN data
    /\ Len(data.chargers) = 2
    /\ data.chargers[1].serial_number = "A"
    /\ data.chargers[2].serial_number = "B"

\* The poll has just returned a value to the coordinator.
PollReturned == last.task = "poll" /\ last.call = "return"

\* The request with this URL is a detail request, a status request.
IsDetail(url) == url.endpoint = "chargers/{serial}"
IsStatus(url) == url.endpoint = "chargers/{serial}/cmd/status"

\* The position in the returned chargers sequence of the charger whose
\* detail request was the k-th request of the aggregation g: the number of
\* detail requests up to k that gave a record.
EntryIndex(g, k) ==
    Cardinality({i \in 1..k : IsDetail(g.reqs[i]) /\ Truthy(g.resps[i])})

RECURSIVE DetailUrls(_, _)
\* The detail URLs of the entries of list from position i on that have a
\* serial number, in list order.
DetailUrls(list, i) ==
    IF i > Len(list) THEN <<>>
    ELSE IF "serial_number" \in DOMAIN list[i]
         THEN <<DetailUrl(list[i].serial_number)>> \o DetailUrls(list, i + 1)
         ELSE DetailUrls(list, i + 1)

\* The poll returned after a list response that carries the list.
ListReturned ==
    /\ PollReturned
    /\ gd.resps # <<>>
    /\ Truthy(gd.resps[1])
    /\ "data" \in DOMAIN gd.resps[1]

C13_EntriesWithoutSerialSkipped ==
    ListReturned =>
        /\ SelectSeq(gd.reqs, IsDetail) = DetailUrls(gd.resps[1].data, 1)
        /\ \A k \in 2..Len(gd.reqs) :
               \/ IsDetail(gd.reqs[k])
               \/ /\ IsStatus(gd.reqs[k])
                  /\ gd.reqs[k - 1] = DetailUrl(gd.reqs[k].serial)
        /\ Len(data.chargers) <= Len(gd.resps[1].data)
        /\ Len(data.chargers) = EntryIndex(gd, Len(gd.reqs))

\* An entry without a serial number came first, and the charger after it
\* was fetched and returned.
C13_Witness ==
    /\ ListReturned
    /\ Len(gd.resps[1].data) = 2
    /\ "serial_number" \notin DOMAIN gd.resps[1].data[1]
    /\ gd.reqs = <<CHARGERS_URL, DetailUrl("A"), StatusUrl("A")>>
    /\ Len(data.chargers) = 1

\* C14: with a valid token, async_get_data returns {} and sends no detail
\* or status request when the list result is absent or has no "data" key,
\* and returns {"chargers": []} when "data" holds an empty list; the two
\* results differ.
C14_NoListIsNotEmptyList ==
    (PollReturned /\ gd.resps # <<>>) =>
        LET r == gd.resps[1]
        IN  /\ (r = PyNone \/ "data" \notin DOMAIN r) =>
                   /\ data = EmptyDict
                   /\ gd.reqs = <<CHARGERS_URL>>
            /\ (r # PyNone /\ "data" \in DOMAIN r /\ r.data = <<>>) =>
                   /\ data = [chargers |-> <<>>]
                   /\ gd.reqs = <<CHARGERS_URL>>
            /\ data = EmptyDict => (r = PyNone \/ "data" \notin DOMAIN r)

\* The list came under the wrong key and the poll returned {}.
C14_Witness ==
    /\ PollReturned
    /\ gd.resps = <<[chargers |-> <<>>]>>
    /\ data = EmptyDict

\* C15: async_get_data sends a request to a chargers endpoint only after
\* async_ensure_token_valid returned true in the same call: none while the
\* token call is pending, the list request in the step in which it returns
\* true, detail and status requests after the list request; when it
\* returns false the call returns {} and has sent no charger request.
C15_ChargerRequestsBehindGate ==
    /\ pc["poll"] \in {"login", "refresh"} => gd.reqs = <<>>
    /\ (last.task = "poll" /\ pc["poll"] = "list") =>
           /\ last.ensure.ret = "true"
           /\ gd.reqs = <<CHARGERS_URL>>
           /\ last.request.url = CHARGERS_URL
    /\ pc["poll"] \in {"detail", "status"} =>
           /\ gd.reqs[1] = CHARGERS_URL
           /\ last.request.url = gd.reqs[Len(gd.reqs)]
    /\ (last.task = "poll" /\ last.ensure.ret = "false") =>
           /\ last.call = "return"
           /\ data = EmptyDict
           /\ last.request = NoRequest
           /\ gd.reqs = <<>>
           /\ pc["poll"] = "idle"

\* The login of a poll was refused: the poll returned {} and sent nothing.
C15_Witness ==
    /\ last.task = "poll"
    /\ last.action = "LoginResponse"
    /\ last.ensure.ret = "false"
    /\ data = EmptyDict
    /\ gd.reqs = <<>>

\* The endpoint a command of the cmd task posts to.
IsCommand(url) ==
    url.endpoint \in {"chargers/{serial}/cmd/start_charging",
                      "chargers/{serial}/cmd/stop_charging"}

\* C16: async_start_charging and async_stop_charging call
\* async_ensure_token_valid first; when it returns false they return false
\* and send no POST to the command endpoint; when it returns true they
\* send one POST, in that step and in no other, to the start or stop
\* endpoint of the charger they were called with.
C16_CommandsBehindGate ==
    /\ (last.task = "cmd" /\ IsCommand(last.request.url)) => last.ensure.ret = "true"
    /\ (last.task = "cmd" /\ last.ensure.ret = "true") =>
           /\ last.request.method = "post"
           /\ last.request.url =
                  [endpoint |-> IF cmd.command = "start_charging"
                                THEN "chargers/{serial}/cmd/start_charging"
                                ELSE "chargers/{serial}/cmd/stop_charging",
                   serial |-> cmd.serial]
           /\ cmd.serial \in Serials
           /\ pc["cmd"] = "command"
    /\ (last.task = "cmd" /\ last.ensure.ret = "false") =>
           /\ last.call = "return"
           /\ last.ok = FALSE
           /\ last.request = NoRequest
           /\ pc["cmd"] = "idle"
    /\ pc["cmd"] \in {"login", "refresh"} =>
           (last.task = "cmd" => ~IsCommand(last.request.url))
    /\ last.action = "CommandResponse" =>
           /\ last.request = NoRequest
           /\ pc["cmd"] = "idle"

\* A stop command passed the gate with a token still valid and sent its
\* POST.
C16_Witness ==
    /\ last.action = "StartCommand"
    /\ last.ensure.ret = "true"
    /\ cmd.command = "stop_charging"
    /\ last.request.url.endpoint = "chargers/{serial}/cmd/stop_charging"
    /\ last.request.url.serial = "A"

C18_ClientSetsCurrentLimit ==
    last.action = "SetNativeValue" => entity.limit_call \in {"true", "false"}

\* C19: when the client's start or stop command returned false, the
\* switch entity's async_turn_on / async_turn_off raises an error to the
\* host.
C19_FailedCommandRaises ==
    (last.action = "SleepDone" /\ entity.command_ok = "false") =>
        entity.raised # "none"

\* C20: async_set_native_value calls the client's set-current-limit
\* operation (once, so that it returns or raises); it requests a refresh
\* if and only if the operation returned true, and raises ValueError
\* without a refresh when the operation returned false or raised.
C20_NumberCallsClientOnce ==
    last.action = "SetNativeValue" =>
        /\ entity.limit_call \in {"true", "false", "raise"}
        /\ entity.refresh_requested <=> entity.limit_call = "true"
        /\ entity.limit_call \in {"false", "raise"} =>
               (entity.raised = "ValueError" /\ ~entity.refresh_requested)

\* C21: the client is the error boundary: whatever a request ends with,
\* no operation of the client raises to the coordinator or to an entity;
\* a poll returns {} or {"chargers": [...]}, and the coordinator never
\* records a failed update.
C21_ClientNeverRaises ==
    /\ last.task \in Tasks => last.call # "raise"
    /\ last_update_success
    /\ PollReturned => (data = EmptyDict \/ DOMAIN data = {"chargers"})

\* The awaits of a task at which one of its HTTP requests is in flight.
RequestPoints == {"login", "refresh", "list", "detail", "status", "command"}

\* Task t awaits the answer to a request it handed to the transport.
InFlight(t) == pc[t] \in RequestPoints

\* C22: at every moment the client has at most one HTTP request in
\* flight, however a coordinator poll and an entity command (with the
\* logins and refreshes they trigger) interleave.
C22_OneRequestInFlight ==
    Cardinality({t \in Tasks : InFlight(t)}) <= 1

\* Two polls were made against the unchanged backend.
PolledTwice == Len(vendor.results) = 2

\* C24 as claimed: two calls of async_get_data against an unchanged
\* backend that both return, return identical results, whatever the token
\* state before the first and whether or not the token expired in between.
C24_IdempotentAlways ==
    (PolledTwice /\ vendor.results[1].call = "return"
                 /\ vendor.results[2].call = "return") =>
        vendor.results[1].value = vendor.results[2].value

\* C24 as amended: two calls of async_get_data against an unchanged
\* backend end identically (the same value returned, or both raising),
\* unless the second call's token check fails after sending a login or a
\* refresh request of a kind the first call did not have to send.
C24_IdempotentUnlessNewAuthFails ==
    PolledTwice =>
        LET a == vendor.results[1]
            b == vendor.results[2]
        IN  \/ (a.call = b.call /\ a.value = b.value)
            \/ /\ b.ensure.ret # "true"
               /\ \/ (b.ensure.logins > 0 /\ a.ensure.logins = 0)
                  \/ (b.ensure.refreshes > 0 /\ a.ensure.refreshes = 0)

\* The token expired between the two calls: the first needed a login, the
\* second a refresh, and both returned the same charger.
C24_Witness ==
    /\ PolledTwice
    /\ vendor.results[1].ensure.entry = "no_token"
    /\ vendor.results[2].ensure.entry = "expired"
    /\ vendor.results[2].ensure.refreshes = 1
    /\ vendor.results[1].value = vendor.results[2].value
    /\ HasChargers(vendor.results[2].value)

\* The step was a call of api_wrapper from outside the client.
WrapperCalled == last.action = "ApiWrapperCall"

\* The method name of which m is a spelling, "none" if it is not a
\* spelling of GET, POST, PUT, PATCH or DELETE.
Spelled(m) ==
    LET names == {n \in {"get", "post", "put", "patch", "delete"} :
                     m \in Casings(MethodWords[n])}
    IN  IF names = {} THEN "none" ELSE CHOOSE n \in names : TRUE

\* C25: api_wrapper called with a method that is no spelling of GET, POST,
\* PUT, PATCH or DELETE (such as "head") returns None and hands no request
\* to the transport; called with any casing of a supported method it
\* hands over one request, of that method and to the URL given.
C25_UnsupportedMakesNoCall ==
    WrapperCalled =>
        IF Spelled(last.args.method) = "none"
        THEN last.request = NoRequest /\ last.response = PyNone
        ELSE /\ last.request # NoRequest
             /\ last.request.method = Spelled(last.args.method)
             /\ last.request.url = last.args.url

\* api_wrapper("HEAD", url) returned None without a request.
C25_Witness ==
    /\ WrapperCalled
    /\ last.args.method = <<"H", "E", "A", "D">>
    /\ last.request = NoRequest
    /\ last.response = PyNone

C27_NonGetDefaultsToEmptyBody ==
    (WrapperCalled /\ last.args.data = PyNone
                   /\ Spelled(last.args.method) \in {"post", "put", "patch", "delete"}) =>
        last.request.json = EmptyDict

\* C27 as amended: for POST, PUT and PATCH called without a body the
\* request carries {} as its body; a DELETE carries no body, with or
\* without one passed.
C27_BodyMethodsDefaultToEmptyBody ==
    WrapperCalled =>
        /\ (last.args.data = PyNone
               /\ Spelled(last.args.method) \in {"post", "put", "patch"}) =>
               last.request.json = EmptyDict
        /\ (last.args.data # PyNone
               /\ Spelled(last.args.method) \in {"post", "put", "patch"}) =>
               last.request.json = last.args.data
        /\ Spelled(last.args.method) = "delete" => last.request.json = PyNone

\* api_wrapper("PUT", url) sent {} as the body.
C27_Witness ==
    /\ WrapperCalled
    /\ last.args.method = <<"P", "U", "T">>
    /\ last.args.data = PyNone
    /\ last.request.method = "put"
    /\ last.request.json = EmptyDict

\* C28: whenever an access token is held, the Authorization value of the
\* client's header map is "Bearer " followed by that token, so a request
\* sent with the default headers carries the token held; while no token
\* is held, such a request carries no Authorization header.
C28_HeaderCarriesHeldToken ==
    /\ client.access_token # None =>
           /\ "Authorization" \in DOMAIN client.headers
           /\ client.headers["Authorization"] = Bearer(client.access_token)
    /\ (last.request # NoRequest /\ last.args.headers = PyNone) =>
           IF client.access_token # None
           THEN /\ "Authorization" \in DOMAIN last.request.headers
                /\ last.request.headers["Authorization"] = Bearer(client.access_token)
           ELSE "Authorization" \notin DOMAIN last.request.headers

\* C29: async_setup_entry puts the coordinator into hass.data and forwards
\* the platforms only once the coordinator's first refresh has ended with
\* last_update_success true; when it ended with last_update_success false
\* the setup raises ConfigEntryNotReady, registers nothing and forwards no
\* platform.
C29_SetupOnlyAfterRefresh ==
    [][/\ (hass'.registered \/ hass'.platforms # {}) => hass'.setup = "done"
       /\ (hass.setup = "refreshing" /\ hass'.setup # "refreshing") =>
              /\ last'.task = "poll" /\ last'.call \in {"return", "raise"}
              /\ IF last_update_success'
                 THEN /\ hass'.setup = "done"
                      /\ hass'.registered
                      /\ hass'.platforms = hass.enabled
                 ELSE /\ hass'.setup = "ConfigEntryNotReady"
                      /\ ~hass'.registered
                      /\ hass'.platforms = {}
       /\ hass.setup # "refreshing" => hass'.setup \in {hass.setup, "refreshing"}]_vars

\* The first refresh raised, and the setup ended with ConfigEntryNotReady.
C29_Witness ==
    /\ hass.setup = "ConfigEntryNotReady"
    /\ last.task = "poll" /\ last.call = "raise"
    /\ ~last_update_success
    /\ ~hass.registered
    /\ hass.enabled = PLATFORMS

\* C30: async_turn_on (async_turn_off) calls the client's start_charging
\* (stop_charging) once, with the switch's serial; when the command has
\* returned it records the command and the time; it requests one
\* coordinator refresh, after the command has returned and never before;
\* a call that the command ends with an exception requests none.
C30_RefreshAfterCommand ==
    [][/\ "caller" \in DOMAIN cmd' =>
              /\ entity'.calls =
                     <<[command |-> IF cmd'.turn = "on" THEN "start_charging"
                                                         ELSE "stop_charging",
                        serial |-> cmd'.switch]>>
              /\ entity'.refreshes = 0
       /\ (pc'["cmd"] = "sleep" /\ pc["cmd"] # "sleep") =>
              /\ last'.task = "cmd" /\ last'.call = "return"
              /\ entity'.command_ok # "none"
              /\ entity'.last_command = (IF cmd.turn = "on" THEN "turn_on" ELSE "turn_off")
              /\ entity'.command_timestamp = now'
       /\ (entity'.refreshes > entity.refreshes /\ last'.action # "SetNativeValue") =>
              /\ last'.action = "SleepDone"
              /\ pc["cmd"] = "sleep"
              /\ entity.command_ok # "none"
              /\ entity'.refreshes = 1
       /\ last'.action = "SleepDone" =>
              /\ entity'.refreshes = 1
              /\ Len(entity'.calls) = 1
       /\ (last'.task = "cmd" /\ last'.call = "raise"
              /\ last'.action # "SetNativeValue") => entity'.refreshes = 0]_vars

\* The switch of charger B was turned off at time 1: stop_charging was
\* called for B and returned true, and the one refresh followed it.
C30_Witness ==
    /\ last.action = "SleepDone"
    /\ entity.calls = <<[command |-> "stop_charging", serial |-> "B"]>>
    /\ entity.command_ok = "true"
    /\ entity.last_command = "turn_off"
    /\ entity.command_timestamp = 1
    /\ entity.refreshes = 1

(***************************************************************************)
(* The switch's state.                                                      *)
(***************************************************************************)
\* The charging_state the switch of charger s finds in coordinator data d
\* is one of S; it is none when the charger, its status or the state is
\* missing.
StateIn(d, s, S) ==
    LET c == GetChargerData(d, s)
    IN  /\ c # EmptyDict
        /\ "status" \in DOMAIN c
        /\ "charging_state" \in DOMAIN c.status
        /\ c.status.charging_state \in S

\* The switch of charger s finds its charger and the charger's status in d.
HasStatus(d, s) ==
    LET c == GetChargerData(d, s)
    IN  c # EmptyDict /\ "status" \in DOMAIN c

\* C31: what is_on returns is decided by the cached charging_state, the
\* last command and the time since it: false when the charger or its
\* status is missing; true for every state outside {0, 4} when a turn_on
\* was sent less than 10 seconds ago; false for every state other than 2
\* when a turn_off was sent less than 10 seconds ago; and in every other
\* case true exactly when the state is one of 2, 5, 6, 7.
C31_IsOnByStateCommandAndTime ==
    last.action = "ReadIsOn" =>
        LET s == entity.shown.serial
            sent(c) == entity.last_command = c /\ now - entity.command_timestamp < 10
        IN  entity.shown.is_on =
                IF ~HasStatus(data, s) THEN FALSE
                ELSE IF sent("turn_on") /\ ~StateIn(data, s, {0, 4}) THEN TRUE
                ELSE IF sent("turn_off") /\ ~StateIn(data, s, {2}) THEN FALSE
                ELSE StateIn(data, s, {2, 5, 6, 7})

\* is_on is read nine seconds after a turn_off while the charger still
\* reports load balancing: the switch shows off.
C31_Witness ==
    /\ last.action = "ReadIsOn"
    /\ entity.last_command = "turn_off"
    /\ now - entity.command_timestamp = 9
    /\ StateIn(data, entity.shown.serial, {5})
    /\ ~entity.shown.is_on

(***************************************************************************)
(* What a successful refresh writes.                                        *)
(***************************************************************************)
\* C32: a refresh request that succeeds leaves the held refresh token as
\* it is when the response brings none and replaces it when the response
\* brings one; the access token, the expiry and the Authorization header
\* it writes are those a successful login with the same response would
\* write at the same time.
C32_RefreshKeepsOrReplacesRefreshToken ==
    [][(last'.action = "RefreshResponse" /\ last'.ensure.refresh_ret = "true") =>
           LET r == last'.response
               login == LoginEffect(client, r, now)
           IN  /\ client'.refresh_token =
                      IF "refresh_token" \in DOMAIN r THEN r.refresh_token
                      ELSE client.refresh_token
               /\ login.ret = "true"
               /\ client'.access_token = login.client.access_token
               /\ client'.token_expires_at = login.client.token_expires_at
               /\ client'.headers = login.client.headers
               /\ client'.headers["Authorization"] = Bearer(r.access_token)
      ]_vars

\* A refresh succeeded with a response that brought another access token
\* and no refresh token: the refresh token sent is still held.
C32_Witness ==
    /\ last.action = "RefreshResponse"
    /\ last.ensure.refresh_ret = "true"
    /\ "refresh_token" \notin DOMAIN last.response
    /\ client.refresh_token = "R1"
    /\ client.access_token = "T2"
    /\ client.headers["Authorization"] = Bearer("T2")

(***************************************************************************)
(* Who writes the token state.                                              *)
(***************************************************************************)
\* The steps in which a request other than login and refresh ends.
RequestEnds ==
    {"ListResponse", "DetailResponse", "StatusResponse", "CommandResponse"}

\* C33: the access token, the refresh token, the expiry and the default
\* header map change only in a step of async_login or async_refresh_token:
\* the list, detail, status and command requests, and api_wrapper which
\* makes them, leave them as they are whatever the response; and every
\* login request carries the credentials the client was constructed with.
C33_TokenStateWrittenOnlyByLoginAndRefresh ==
    [][/\ last'.action \in RequestEnds => client' = client
       /\ client' # client => last'.action \in {"LoginResponse", "RefreshResponse"}
       /\ last'.request.url = LOGIN_URL =>
              /\ last'.request.json.username = LoginData.username
              /\ last'.request.json.password = LoginData.password
      ]_vars

\* A command request failed with tokens held, and the tokens are held
\* still.
C33_Witness ==
    /\ last.action = "CommandResponse"
    /\ last.response = PyNone
    /\ client.access_token # None
    /\ client.refresh_token # None
    /\ client.token_expires_at # NoExpiry
    /\ "Authorization" \in DOMAIN client.headers

(***************************************************************************)
(* _async_update_data.                                                      *)
(***************************************************************************)
\* A call of _async_update_data ended in the step that led here.
UpdateEnded == last.task = "poll" /\ last.call \in {"return", "raise", "cancelled"}

\* _async_update_data returned what async_get_data returned, which the
\* coordinator holds now.
ReturnedUnchanged ==
    /\ last.update.call = "return"
    /\ last.update.value = data
    /\ last.update.value =
           IF \/ last.ensure.ret = "false"
              \/ /\ last.action = "ListResponse"
                 /\ (~Truthy(last.response) \/ "data" \notin DOMAIN last.response)
           THEN EmptyDict
           ELSE [chargers |-> gd.chargers]

\* C34 as claimed: _async_update_data returns the value of async_get_data
\* unchanged, and whenever its await of async_get_data ends with an
\* exception it raises UpdateFailed with that exception as its cause: no
\* other exception type escapes it.
C34_OnlyUpdateFailedEscapes ==
    UpdateEnded =>
        IF last.call = "return" THEN ReturnedUnchanged
        ELSE /\ last.update.call = "raise"
             /\ last.update.exception = "UpdateFailed"
             /\ last.update.cause # "none"

\* C34, amended: _async_update_data returns the value of async_get_data
\* unchanged, raises UpdateFailed with the original exception as its cause
\* when async_get_data raises an Exception, and lets the CancelledError of
\* a cancelled poll pass as it is; nothing else escapes it.
C34_ExceptionsBecomeUpdateFailed ==
    UpdateEnded =>
        /\ last.call = "return" => ReturnedUnchanged
        /\ last.call = "raise" =>
               /\ last.update.call = "raise"
               /\ last.update.exception = "UpdateFailed"
               /\ last.update.cause = "TypeError"
        /\ last.call = "cancelled" =>
               /\ last.update.call = "raise"
               /\ last.update.exception = "CancelledError"
               /\ last.update.exception \notin ExceptionClasses

\* The login of a poll raised TypeError, and _async_update_data raised
\* UpdateFailed from it.
C34_Witness ==
    /\ last.task = "poll"
    /\ last.call = "raise"
    /\ last.ensure.login_ret = "raise"
    /\ last.update.exception = "UpdateFailed"
    /\ last.update.cause = "TypeError"
    /\ ~last_update_success

(***************************************************************************)
(* Unloading and reloading the entry.                                       *)
(***************************************************************************)
\* C35: async_unload_entry asks the host to unload the platforms that were
\* forwarded; it returns true and removes the coordinator from
\* hass.data[DOMAIN] exactly when the host unloaded them or none was
\* forwarded, and returns false and leaves the coordinator registered when
\* the host failed to.  async_reload_entry calls async_unload_entry first
\* and async_setup_entry after it.
C35_UnloadRemovesOnlyWhenUnloaded ==
    [][/\ last'.action \in {"UnloadEntry", "ReloadEntry"} =>
              LET u == hass'.unload
              IN  /\ u.asked = hass.platforms
                  /\ (u.host = "none") = (u.asked = {})
                  /\ (u.ret = "true") = (u.host = "true" \/ u.asked = {})
                  /\ (u.ret = "false") = (u.host = "false")
                  /\ hass.registered
                  /\ hass'.registered = (u.ret = "false")
       /\ last'.action = "ReloadEntry" =>
              /\ hass'.calls = <<"async_unload_entry">>
              /\ hass'.setup = "reloading"
       /\ (hass.setup = "reloading" /\ hass'.setup # "reloading") =>
              /\ last'.action = "SetupEntry"
              /\ hass'.calls = <<"async_unload_entry", "async_setup_entry">>
              /\ hass'.setup = "refreshing"
       /\ (last'.action = "SetupEntry" /\ hass.setup # "reloading") =>
              hass'.calls = <<"async_setup_entry">>
      ]_vars

\* The host failed to unload the platforms: async_unload_entry returned
\* false and the coordinator is still registered.
C35_Witness ==
    /\ last.action = "UnloadEntry"
    /\ hass.unload.asked = PLATFORMS
    /\ hass.unload.host = "false"
    /\ hass.unload.ret = "false"
    /\ hass.registered
    /\ hass.setup = "done"

(***************************************************************************)
(* The headers of a GET.                                                    *)
(***************************************************************************)
\* C36: while the client holds a token, a GET made through api_wrapper
\* with the default headers is handed to the transport with both
\* Authorization: Bearer <token> and Content-Type: application/json among
\* its headers, whether the request then ends with a status other than
\* 2xx or fails.
C36_GetCarriesTokenAndContentType ==
    (/\ WrapperCalled
     /\ Spelled(last.args.method) = "get"
     /\ last.args.headers = PyNone
     /\ client.access_token # None) =>
        /\ last.request.method = "get"
        /\ "Authorization" \in DOMAIN last.request.headers
        /\ last.request.headers["Authorization"] = Bearer(client.access_token)
        /\ "Content-Type" \in DOMAIN last.request.headers
        /\ last.request.headers["Content-Type"] = "application/json"

(***************************************************************************)
(* Termination.                                                             *)
(***************************************************************************)
\* The requests one call has sent stay within the bound: at most two for
\* the token (a refresh and a login), and for a poll the list request and
\* at most two for each entry of the list.
RequestsBounded ==
    /\ \A t \in Tasks : ev[t].logins + ev[t].refreshes <= 2
    /\ last.ensure.logins + last.ensure.refreshes <= 2
    /\ Len(gd.reqs) <= 1 + 2 * Len(gd.list)

C38_FlowTellsUnreachableFromRefused ==
    last.action = "FlowLoginResponse" =>
        /\ (hass.flow.step = "entry") = (hass.flow.login = "true")
        /\ hass.flow.outcome = "client_error" =>
               /\ hass.flow.step = "form"
               /\ hass.flow.errors = "cannot_connect"
        /\ hass.flow.errors = "auth" =>
               /\ hass.flow.step = "form"
               /\ hass.flow.login = "false"
               /\ hass.flow.outcome = "response"

(***************************************************************************)
(* The serial numbers of the returned chargers.                             *)
(***************************************************************************)
\* C39: every entry of the chargers sequence async_get_data returns has
\* the serial number of the list entry it was fetched for, so the switch
\* of that charger finds its entry in the data of every poll that
\* includes the charger.
C39_EntriesKeepListSerial ==
    (PollReturned /\ "chargers" \in DOMAIN data) =>
        \A k \in 1..Len(gd.resps) :
            (IsDetail(gd.reqs[k]) /\ Truthy(gd.resps[k])) =>
                LET e == data.chargers[EntryIndex(gd, k)]
                IN  /\ "serial_number" \in DOMAIN e
                    /\ e["serial_number"] = gd.reqs[k].serial
                    /\ GetChargerData(data, gd.reqs[k].serial) # EmptyDict

(***************************************************************************)
(* The data the entry is set up with.                                       *)
(***************************************************************************)
\* C40: whenever async_setup_entry completes successfully the
\* coordinator's data has the "chargers" key: the setup does not complete
\* (and forwards no platform) on a first refresh in which the
\* authentication or the request for the charger list failed.
C40_SetupCompletesWithChargers ==
    [][(hass.setup = "refreshing" /\ hass'.setup = "done")
           => "chargers" \in DOMAIN data']_vars

====
